---------------------------- MODULE Spec2Model ----------------------------
(***************************************************************************)
(* A model of the api-gateway: the per-IP token-bucket admission control   *)
(* (internal/services/ratelimiter.go, pkg/middleware RateLimitMiddleware), *)
(* the longest-prefix reverse proxy (internal/handlers/proxy.go) and the   *)
(* handler chain assembled in cmd/api/main.go.                             *)
(*                                                                         *)
(* Time is counted in ticks.  One token is refilled every TicksPerToken    *)
(* ticks, so that a tick is 1 / (Limit * TicksPerToken) seconds, and the   *)
(* float token count of rate.Limiter is kept exactly, in units of          *)
(* 1 / TicksPerToken token.                                                *)
(***************************************************************************)
EXTENDS Integers, Sequences, FiniteSets, TLC

(* ------------------------- program constants -------------------------- *)

\* rate.NewLimiter(2, 5): 2 tokens per second, burst of 5.
Limit == 2
Burst == 5
\* time.Sleep(1 * time.Minute)
SleepMinutes == 1
\* time.Since(v.lastSeen) > 3*time.Minute
IdleMinutes == 3
SecondsPerMinute == 60
\* http.StatusTooManyRequests, http.StatusNotFound, http.StatusOK, ...
ShutdownSeconds == 5

StatusOK == 200
StatusMovedPermanently == 301
StatusCreated == 201
StatusBadRequest == 400
StatusUnauthorized == 401
StatusNotFound == 404
StatusConflict == 409
StatusTooManyRequests == 429
StatusInternalServerError == 500
StatusBadGateway == 502

(* ------------------------------ bounds -------------------------------- *)

\* resolution of the clock: ticks per refilled token
TicksPerToken == 2
\* how many single ticks a run may contain: of one client's requests one
\* after the other, and of a run with idle periods
MaxShortTicks == 4
MaxReaperTicks == 1
\* how many long idle periods a run may contain
MaxLongWaits == 1
\* how many iterations of the reaper's loop a run may contain
MaxLoopPasses == 5
\* concurrent request-handling goroutines
NumWorkers == 2
\* configured routes, length of a route prefix and of a request path
MaxRoutes == 2
MaxPrefixLen == 2
MaxPathLen == 3

Workers == 1..NumWorkers

TicksPerSecond == Limit * TicksPerToken
\* 3 minutes, in ticks
IdleTicks == IdleMinutes * SecondsPerMinute * TicksPerSecond
\* one full refill cycle (capacity / sustainedRate), in ticks
RefillCycleTicks == Burst * TicksPerToken
\* the sleep of the reaper's loop, in ticks
SleepTicks == SleepMinutes * SecondsPerMinute * TicksPerSecond

Min(a, b) == IF a < b THEN a ELSE b

(* ------------------------------ strings ------------------------------- *)
\* A string is a sequence of one-character strings; len() is Len.

\* strings.HasPrefix(s, prefix)
HasPrefix(s, prefix) ==
    /\ Len(prefix) <= Len(s)
    /\ SubSeq(s, 1, Len(prefix)) = prefix

\* strings.Split(s, sep)[0] for a one-character sep: the text before the
\* first sep, the whole of s when it holds none.
SplitFirst(s, sep) ==
    LET at == {k \in 1..Len(s) : s[k] = sep}
    IN  IF at = {} THEN s
        ELSE SubSeq(s, 1, (CHOOSE k \in at : \A m \in at : k <= m) - 1)

\* all strings over alphabet of length at most n
StringsUpTo(alphabet, n) == UNION {[1..k -> alphabet] : k \in 0..n}

\* r.RemoteAddr of the inbound connections: "1:8", "1:9" and "2:8"
\* (two ports of one address, and another address)
RemoteAddrs ==
    { <<"1", ":", "8">>, <<"1", ":", "9">>, <<"2", ":", "8">> }

\* r.RemoteAddr of connections over IPv6: "[::1]:8" and "[::2]:8"
RemoteAddrs6 ==
    { <<"[", ":", ":", "1", "]", ":", "8">>,
      <<"[", ":", ":", "2", "]", ":", "8">> }

\* ip := strings.Split(r.RemoteAddr, ":")[0]
ClientIP(addr) == SplitFirst(addr, ":")

ClientIPs == {ClientIP(a) : a \in RemoteAddrs \cup RemoteAddrs6}


(* ------------------------------- state -------------------------------- *)

VARIABLES
    \* --- internal/services/ratelimiter.go and the process it runs in ---
    now,            \* time.Now(), in ticks since process start
    testing,        \* isTesting(): os.Args[0] ends in ".test"
    visitorMap,     \* ip -> Visitor{limiter, lastSeen}
    limiters,       \* the heap of *rate.Limiter: address -> {tokens, last}
    mu,             \* services.mu: the worker holding it (0: unlocked)
    \* --- cmd/api/main.go: the process ---
    server,         \* "serving", "draining" (srv.Shutdown under way), "exited"
    deadline,       \* when the context given to srv.Shutdown expires
    \* --- one request per worker goroutine ---
    pc,             \* where the worker is in its handler
    handler,        \* the handler the request was given to
    ip,             \* RateLimitMiddleware's local ip
    limiter,        \* RateLimitMiddleware's local limiter (0: none)
    allowed,        \* result of limiter.Allow(): "none", "yes", "no"
    status,         \* status code written to the client (0: none yet)
    body,           \* response body written to the client
    nextCalls,      \* calls of next.ServeHTTP made for the request
    wheader,        \* w.Header() as it is sent with the response
    \* --- internal/handlers/proxy.go ---
    routes,         \* p.config.Routes, in the order of the configuration
    path,           \* r.URL.Path of the worker's request
    bestMatch,      \* ServeHTTP's local bestMatch: an index of routes (0: nil)
    upstreamCalls,  \* outbound calls made for the request
    \* --- cmd/api/main.go and pkg/middleware/auth.go ---
    cred,           \* the Authorization header of the worker's request
    userID,         \* the user id AuthMiddleware put in the request context
    \* --- UserHandler ---
    dbCalls,        \* the queries the handler has sent to the database
    dbErr,          \* the error of the handler's last query
    \* --- the proxied request (internal/handlers/proxy.go, Director on) ---
    inbound,        \* the inbound request: its correlation id, headers, query,
                    \* method, body, r.RemoteAddr and r.RequestURI
    outreq,         \* the outbound request as the transport sends it
    upstream,       \* how the upstream behaves for the worker's call
    received,       \* the response received from the upstream
    \* --- observers (no counterpart in the program's memory) ---
    issuedAt,       \* when the worker's admission check began
    before,         \* the identity's bucket as it was when the check began
    admittedNow,    \* ip -> checks begun and admitted at the instant `now`
    tally,          \* limiter -> its decisions at creation and one refill later
    win,            \* one observation window over an identity and its bucket
    evicted,        \* the latest reaper pass, if no time has passed since
    shadow,         \* the buckets and decisions of the same run without reaper
    watch           \* the observers that are switched on in this run

svcVars == <<visitorMap, limiters>>
procVars == <<mu, server, deadline>>
reqVars == <<pc, handler, ip, limiter, allowed, status, body, nextCalls, wheader>>
proxyVars == <<routes, path, bestMatch, upstreamCalls>>
authVars == <<cred, userID>>
userVars == <<dbCalls, dbErr>>
fwdVars == <<inbound, outreq, upstream, received>>
obsVars == <<issuedAt, before, admittedNow, tally, win, evicted, shadow, watch>>
vars == <<now, testing, svcVars, procVars, userVars, reqVars, proxyVars, authVars, fwdVars, obsVars>>

NoString == <<>>

\* no request in hand, nothing sent, nothing received
NoInbound ==
    [requestID |-> "none", header |-> <<>>, query |-> NoString, method |-> "",
     body |-> NoString, remoteAddr |-> NoString, requestURI |-> NoString]
NoOutreq ==
    [scheme |-> NoString, host |-> NoString, path |-> NoString,
     query |-> NoString, hostHeader |-> NoString, header |-> <<>>,
     method |-> "", body |-> NoString]
NoReply == [status |-> 0, body |-> NoString]

\* a JSON Web Token as jwt.ParseWithClaims sees it: whether it has the three
\* parts of a token, its alg, the key it is signed with, whether its exp is
\* over, and its user_id claim ("" without one)
Token(wellFormed, alg, key, expired, user) ==
    [wellFormed |-> wellFormed, alg |-> alg, key |-> key, expired |-> expired,
     user_id |-> user]
NoToken == Token(FALSE, "", "", FALSE, "")

\* an Authorization header: the number of parts strings.Split(h, " ") gives
\* (0 for an empty or absent header), parts[0], and the token in parts[1]
Authorization(words, scheme, token) ==
    [words |-> words, scheme |-> scheme, token |-> token]
NoCredential == Authorization(0, NoString, NoToken)

\* an error of a database call: its Go type ("pq" for *pq.Error), and the
\* Code and the words of the Message of a *pq.Error
DbError(type, code, message) == [type |-> type, code |-> code, message |-> message]
NoError == DbError("none", "", <<>>)

(* --------------------- golang.org/x/time/rate ------------------------- *)

\* rate.NewLimiter(2, 5): a full bucket.
NewLimiter == [tokens |-> Burst * TicksPerToken, last |-> 0]

\* (mutant) the elapsed time refills nothing
AdvanceNoRefill(lim, t) == Min(Burst * TicksPerToken, lim.tokens)

\* Limiter.advance(t): the tokens the bucket holds at t,
\*   min(burst, tokens + elapsed * limit).
Advance(lim, t) ==
    LET last == IF t < lim.last THEN t ELSE lim.last
        elapsed == t - last
    IN  Min(Burst * TicksPerToken, lim.tokens + elapsed)

\* Limiter.reserveN(t, 1, 0).ok: one token is there to take.
ReserveOK(lim, t) == Advance(lim, t) - TicksPerToken >= 0

\* (mutant) a granted reservation does not move last forward
ReserveKeepsLast(lim, t) ==
    IF ReserveOK(lim, t)
    THEN [tokens |-> Advance(lim, t) - TicksPerToken, last |-> lim.last]
    ELSE lim

\* (mutant) a refused reservation stores the advanced bucket
ReserveStoresRefusal(lim, t) ==
    IF ReserveOK(lim, t)
    THEN [tokens |-> Advance(lim, t) - TicksPerToken, last |-> t]
    ELSE [tokens |-> Advance(lim, t), last |-> t]

\* Limiter.reserveN(t, 1, 0): the limiter afterwards; a refused reservation
\* leaves tokens and last as they were.
Reserve(lim, t) ==
    IF ReserveOK(lim, t)
    THEN [tokens |-> Advance(lim, t) - TicksPerToken, last |-> t]
    ELSE lim

(* ------------------------------- heap --------------------------------- *)

LimiterAddrs == 1..(Cardinality(ClientIPs) + NumWorkers)

\* the address a new limiter gets: the lowest free one
NewAddr(heap) ==
    CHOOSE a \in LimiterAddrs \ DOMAIN heap :
        \A b \in LimiterAddrs \ DOMAIN heap : a <= b

\* limiters still referenced, from the map or from a goroutine's local
Referenced(vm, held) ==
    ({vm[i].limiter : i \in DOMAIN vm} \cup {held[w] : w \in Workers}) \ {0}

Restrict(f, S) == [x \in (DOMAIN f) \cap S |-> f[x]]

(* ----------------------------- observers ------------------------------ *)
\* History variables.  An observer that is switched off keeps its first value.

Observers == {"instant", "before", "tally", "win", "evicted", "shadow"}

Observe(name, new, old) == IF name \in watch THEN new ELSE old

\* no reaper pass at this instant yet
\* (gone: the identities the pass removed; seen: their lastSeen)
NoPass == [passed |-> FALSE, gone |-> {}, seen |-> <<>>]

CountCap == Burst + 1

NoBucket == [present |-> FALSE, at |-> 0, lastSeen |-> 0, tokens |-> 0, last |-> 0]
BucketOf(i, t) ==
    IF i \in DOMAIN visitorMap
    THEN [present |-> TRUE, at |-> t, lastSeen |-> visitorMap[i].lastSeen,
          tokens |-> limiters[visitorMap[i].limiter].tokens,
          last |-> limiters[visitorMap[i].limiter].last]
    ELSE [NoBucket EXCEPT !.at = t]

ClosedTally == [open |-> FALSE, born |-> 0, a0 |-> 0, r0 |-> 0, a1 |-> 0, r1 |-> 0]
NewTally(t) == [open |-> TRUE, born |-> t, a0 |-> 0, r0 |-> 0, a1 |-> 0, r1 |-> 0]

\* a0 / r0: checks admitted / refused at the instant the bucket was made;
\* a1 / r1: checks admitted / refused exactly one refill interval later,
\* counted when the bucket was emptied at creation and untouched since.
TallyDecision(t, ok, at) ==
    IF ~t.open THEN t
    ELSE IF at = t.born
    THEN IF ok THEN [t EXCEPT !.a0 = Min(CountCap, @ + 1)] ELSE [t EXCEPT !.r0 = 1]
    ELSE IF at = t.born + TicksPerToken /\ t.a0 = Burst
    THEN IF ok THEN [t EXCEPT !.a1 = Min(CountCap, @ + 1)] ELSE [t EXCEPT !.r1 = 1]
    ELSE ClosedTally

TallyTick(t, at) ==
    IF t.open /\ at > t.born + TicksPerToken THEN ClosedTally ELSE t

NoWin == [open |-> FALSE, ip |-> NoString, lim |-> 0, start |-> 0, nIp |-> 0, nLim |-> 0]

\* the window counts the checks admitted for its identity, and those admitted
\* by the bucket the identity had when the window opened
WinDecision(v, ok, i, l) ==
    IF ~(v.open /\ ok) THEN v
    ELSE [v EXCEPT !.nIp = IF i = v.ip THEN Min(CountCap, @ + 1) ELSE @,
                   !.nLim = IF l = v.lim THEN @ + 1 ELSE @]

\* the window covers the instants less than one full refill cycle after its start
WinTick(v, at) ==
    IF v.open /\ at - v.start >= RefillCycleTicks THEN NoWin ELSE v

WinCollect(v, live) ==
    IF v.open /\ v.lim \notin live THEN [v EXCEPT !.lim = 0] ELSE v

\* The run without reaper: the bucket each identity has when nothing is ever
\* evicted, and what that bucket says to the check a worker makes.
NoShadow == [bucket |-> <<>>, said |-> [w \in Workers |-> "none"]]

ShadowLookup(s, i) ==
    IF i \in DOMAIN s.bucket THEN s
    ELSE [s EXCEPT !.bucket = [j \in DOMAIN s.bucket \cup {i} |->
                                IF j = i THEN NewLimiter ELSE s.bucket[j]]]

ShadowDecision(s, w, i, t) ==
    [s EXCEPT !.bucket[i] = Reserve(@, t),
              !.said[w] = IF ReserveOK(s.bucket[i], t) THEN "yes" ELSE "no"]

ShadowReturn(s, w) == [s EXCEPT !.said[w] = "none"]

(* ------------------- internal/services/ratelimiter.go ----------------- *)

\* (mutant) the threshold is taken twice
IsIdleTwice(v, t) == t - v.lastSeen > 2 * IdleTicks

\* time.Since(v.lastSeen) > 3*time.Minute
IsIdle(v, t) == t - v.lastSeen > IdleTicks

\* (mutant) a call marks every visitor as seen
GetVisitorLimiterTouchesAll(i) ==
    IF i \notin DOMAIN visitorMap
    THEN LET a == NewAddr(limiters)
         IN  [vm   |-> [j \in DOMAIN visitorMap \cup {i} |->
                          IF j = i THEN [limiter |-> a, lastSeen |-> now]
                          ELSE [visitorMap[j] EXCEPT !.lastSeen = now]],
              heap |-> [b \in DOMAIN limiters \cup {a} |->
                          IF b = a THEN NewLimiter ELSE limiters[b]],
              ret  |-> a,
              made |-> TRUE]
    ELSE [vm   |-> [j \in DOMAIN visitorMap |->
                      [visitorMap[j] EXCEPT !.lastSeen = now]],
          heap |-> limiters,
          ret  |-> visitorMap[i].limiter,
          made |-> FALSE]

\* (mutant) the map is not looked up: every call makes a limiter
GetVisitorLimiterAlwaysNew(i) ==
    LET a == NewAddr(limiters)
    IN  [vm   |-> [j \in DOMAIN visitorMap \cup {i} |->
                     IF j = i THEN [limiter |-> a, lastSeen |-> now]
                     ELSE visitorMap[j]],
         heap |-> [b \in DOMAIN limiters \cup {a} |->
                     IF b = a THEN NewLimiter ELSE limiters[b]],
         ret  |-> a,
         made |-> TRUE]

\* GetVisitorLimiter(ip), under mu from its first to its last statement:
\* the map and the heap afterwards, and the limiter returned.
GetVisitorLimiter(i) ==
    IF i \notin DOMAIN visitorMap
    THEN LET a == NewAddr(limiters)
         IN  [vm   |-> [j \in DOMAIN visitorMap \cup {i} |->
                          IF j = i THEN [limiter |-> a, lastSeen |-> now]
                          ELSE visitorMap[j]],
              heap |-> [b \in DOMAIN limiters \cup {a} |->
                          IF b = a THEN NewLimiter ELSE limiters[b]],
              ret  |-> a,
              made |-> TRUE]
    ELSE [vm   |-> [visitorMap EXCEPT ![i].lastSeen = now],
          heap |-> limiters,
          ret  |-> visitorMap[i].limiter,
          made |-> FALSE]

\* (mutant) the deferred mu.Unlock() is missing: the caller keeps the mutex
UnlockSkipped(holder) == holder

\* mu.Lock() waits until the mutex is free (mu = 0); the deferred mu.Unlock()
\* of GetVisitorLimiter and of VisitorCleanup frees it when the function
\* returns, before the caller's next statement.
Unlock(holder) == 0

\* The identities one pass of VisitorCleanup deletes: all of them in a test
\* binary, the idle ones otherwise.
CleanupDeletes(vm, t) ==
    IF testing THEN DOMAIN vm
    ELSE {i \in DOMAIN vm : IsIdle(vm[i], t)}

\* VisitorCleanup(), under mu from its first to its last statement.
VisitorCleanup ==
    LET gone == CleanupDeletes(visitorMap, now)
        vm   == Restrict(visitorMap, DOMAIN visitorMap \ gone)
        live == Referenced(vm, limiter)
    IN  /\ mu = 0
        /\ mu' = Unlock(mu)
        /\ visitorMap' = vm
        /\ limiters' = Restrict(limiters, live)
        /\ tally' = Observe("tally", Restrict(tally, live), tally)
        /\ win' = WinCollect(win, live)
        /\ evicted' = Observe("evicted",
                        [passed |-> TRUE, gone |-> gone,
                         seen |-> [i \in gone |-> visitorMap[i].lastSeen]],
                        evicted)
        /\ UNCHANGED <<userVars, server, deadline, now, testing, reqVars, proxyVars, authVars,
                       fwdVars, issuedAt, before, admittedNow, watch, shadow>>

\* (mutant) the body of the loop runs once: there is no for around it
CleanupVisitorsOnce ==
    LET t    == now + SleepTicks
        gone == CleanupDeletes(visitorMap, t)
        vm   == Restrict(visitorMap, DOMAIN visitorMap \ gone)
        live == Referenced(vm, limiter)
    IN  /\ now = 0
        /\ mu = 0
        /\ mu' = Unlock(mu)
        /\ now' = t
        /\ visitorMap' = vm
        /\ limiters' = Restrict(limiters, live)
        /\ admittedNow' = [i \in ClientIPs |-> 0]
        /\ tally' = Observe("tally",
                        [b \in DOMAIN tally \cap live |-> TallyTick(tally[b], t)],
                        tally)
        /\ win' = WinCollect(WinTick(win, t), live)
        /\ evicted' = Observe("evicted",
                        [passed |-> TRUE, gone |-> gone,
                         seen |-> [i \in gone |-> visitorMap[i].lastSeen]],
                        evicted)
        /\ UNCHANGED <<userVars, server, deadline, testing, reqVars, proxyVars,
                       authVars, fwdVars, issuedAt, before, watch, shadow>>

\* One iteration of CleanupVisitorsLoop(): time.Sleep(1 * time.Minute), then
\* VisitorCleanup() at the time the sleep ends. The loop has no exit; a run
\* holds at most MaxLoopPasses iterations.
CleanupVisitorsLoop ==
    LET t    == now + SleepTicks
        gone == CleanupDeletes(visitorMap, t)
        vm   == Restrict(visitorMap, DOMAIN visitorMap \ gone)
        live == Referenced(vm, limiter)
    IN  /\ now \div SleepTicks < MaxLoopPasses
        /\ mu = 0
        /\ mu' = Unlock(mu)
        /\ now' = t
        /\ visitorMap' = vm
        /\ limiters' = Restrict(limiters, live)
        /\ admittedNow' = [i \in ClientIPs |-> 0]
        /\ tally' = Observe("tally",
                        [b \in DOMAIN tally \cap live |-> TallyTick(tally[b], t)],
                        tally)
        /\ win' = WinCollect(WinTick(win, t), live)
        /\ evicted' = Observe("evicted",
                        [passed |-> TRUE, gone |-> gone,
                         seen |-> [i \in gone |-> visitorMap[i].lastSeen]],
                        evicted)
        /\ UNCHANGED <<userVars, server, deadline, testing, reqVars, proxyVars,
                       authVars, fwdVars, issuedAt, before, watch, shadow>>

(* ------------------ pkg/middleware RateLimitMiddleware ---------------- *)

\* http.Error(w, msg, code) writes msg and a newline
HttpError(msg) == <<msg, "\n">>

\* The first half of the handler: ip := strings.Split(r.RemoteAddr, ":")[0];
\* limiter := services.GetVisitorLimiter(ip).
RateLimitLookup(w, addr) ==
    /\ pc[w] = "idle"
    /\ mu = 0
    /\ mu' = Unlock(w)
    /\ inbound' = [inbound EXCEPT ![w] = [NoInbound EXCEPT !.remoteAddr = addr]]
    /\ LET i == ClientIP(addr)
           got == GetVisitorLimiter(i)
       IN  /\ visitorMap' = got.vm
           /\ limiters' = got.heap
           /\ tally' = IF got.made
                       THEN Observe("tally",
                                [b \in DOMAIN got.heap |->
                                   IF b = got.ret THEN NewTally(now) ELSE tally[b]],
                                tally)
                       ELSE tally
           /\ ip' = [ip EXCEPT ![w] = i]
           /\ limiter' = [limiter EXCEPT ![w] = got.ret]
    /\ pc' = [pc EXCEPT ![w] = "allow"]
    /\ handler' = [handler EXCEPT ![w] = "ratelimit"]
    /\ issuedAt' = Observe("instant", [issuedAt EXCEPT ![w] = now], issuedAt)
    /\ before' = Observe("before",
                     [before EXCEPT ![w] = BucketOf(ClientIP(addr), now)], before)
    /\ shadow' = Observe("shadow", ShadowLookup(shadow, ClientIP(addr)), shadow)
    /\ UNCHANGED <<userVars, server, deadline, now, testing, wheader, allowed, status, body, nextCalls,
                   proxyVars, authVars, outreq, upstream, received,
                   admittedNow, win, evicted, watch>>

\* (mutant) the return after the 429 is missing
RateLimitFallsThrough(ok) ==
    IF ~ok
    THEN [status |-> StatusTooManyRequests,
          body |-> HttpError("Too Many Requests") \o <<"Success!">>, next |-> 1]
    ELSE [status |-> StatusOK, body |-> <<"Success!">>, next |-> 1]

\* What the handler does with the result of limiter.Allow(): a 429 and a
\* return, or the call of next (here a handler answering 200 "Success!").
RateLimitBranch(ok) ==
    IF ~ok
    THEN [status |-> StatusTooManyRequests,
          body |-> HttpError("Too Many Requests"), next |-> 0]
    ELSE [status |-> StatusOK, body |-> <<"Success!">>, next |-> 1]

\* The second half of the handler: limiter.Allow() and what follows.
RateLimitAllow(w) ==
    /\ pc[w] = "allow"
    /\ LET l    == limiter[w]
           ok   == ReserveOK(limiters[l], now)
           heap == [limiters EXCEPT ![l] = Reserve(@, now)]
           held == [limiter EXCEPT ![w] = 0]
           live == Referenced(visitorMap, held)
           out  == RateLimitBranch(ok)
       IN  /\ limiters' = Restrict(heap, live)
           /\ limiter' = held
           /\ allowed' = [allowed EXCEPT ![w] = IF ok THEN "yes" ELSE "no"]
           /\ status' = [status EXCEPT ![w] = out.status]
           /\ body' = [body EXCEPT ![w] = out.body]
           /\ nextCalls' = [nextCalls EXCEPT ![w] = @ + out.next]
           /\ admittedNow' =
                IF ok /\ issuedAt[w] = now
                THEN Observe("instant",
                         [admittedNow EXCEPT ![ip[w]] = Min(CountCap, @ + 1)],
                         admittedNow)
                ELSE admittedNow
           /\ tally' = Observe("tally",
                           Restrict([tally EXCEPT ![l] = TallyDecision(@, ok, now)], live),
                           tally)
           /\ win' = WinCollect(WinDecision(win, ok, ip[w], l), live)
           /\ shadow' = Observe("shadow", ShadowDecision(shadow, w, ip[w], now), shadow)
    /\ pc' = [pc EXCEPT ![w] = "done"]
    /\ issuedAt' = [issuedAt EXCEPT ![w] = 0]
    /\ UNCHANGED <<userVars, procVars, now, testing, wheader, visitorMap, handler, ip, proxyVars, authVars, fwdVars,
                   before, evicted, watch>>

\* The handler has returned, or net/http has recovered its panic and closed
\* the connection; the goroutine serves the next request.
Return(w) ==
    /\ pc[w] \in {"done", "panicked"}
    /\ dbCalls' = [dbCalls EXCEPT ![w] = 0]
    /\ dbErr' = [dbErr EXCEPT ![w] = NoError]
    /\ pc' = [pc EXCEPT ![w] = "idle"]
    /\ handler' = [handler EXCEPT ![w] = "none"]
    /\ ip' = [ip EXCEPT ![w] = NoString]
    /\ allowed' = [allowed EXCEPT ![w] = "none"]
    /\ status' = [status EXCEPT ![w] = 0]
    /\ body' = [body EXCEPT ![w] = NoString]
    /\ nextCalls' = [nextCalls EXCEPT ![w] = 0]
    /\ path' = [path EXCEPT ![w] = NoString]
    /\ bestMatch' = [bestMatch EXCEPT ![w] = 0]
    /\ upstreamCalls' = [upstreamCalls EXCEPT ![w] = 0]
    /\ cred' = [cred EXCEPT ![w] = NoCredential]
    /\ userID' = [userID EXCEPT ![w] = "none"]
    /\ inbound' = [inbound EXCEPT ![w] = NoInbound]
    /\ outreq' = [outreq EXCEPT ![w] = NoOutreq]
    /\ upstream' = [upstream EXCEPT ![w] = "none"]
    /\ received' = [received EXCEPT ![w] = NoReply]
    /\ before' = [before EXCEPT ![w] = NoBucket]
    /\ wheader' = [wheader EXCEPT ![w] = <<>>]
    /\ shadow' = Observe("shadow", ShadowReturn(shadow, w), shadow)
    /\ UNCHANGED <<procVars, now, testing, svcVars, limiter, routes,
                   issuedAt, admittedNow, tally, win, evicted, watch>>

(* -------------------- internal/handlers/proxy.go ---------------------- *)

PathAlphabet == {"/", "u"}

\* the request paths, which begin with a slash, and the prefixes a route may
\* be configured with, which are any strings
Paths == {p \in StringsUpTo(PathAlphabet, MaxPathLen) : HasPrefix(p, <<"/">>)}
Prefixes == StringsUpTo(PathAlphabet, MaxPrefixLen)

\* config.Route
Route(prefix, url) == [PathPrefix |-> prefix, UpstreamURL |-> url]

\* upstream URLs of the configuration, http shortened to h: "h://a", "h://b",
\* "h://b/u" (with a path of its own), "://a" (no scheme before the colon)
\* and "a" (no scheme at all)
UrlA == <<"h", ":", "/", "/", "a">>
UrlB == <<"h", ":", "/", "/", "b">>
UrlBU == <<"h", ":", "/", "/", "b", "/", "u">>
UrlNoScheme == <<":", "/", "/", "a">>
UrlBare == <<"a">>

Letters == {"h", "a", "b", "u"}

\* url.Parse(u): getScheme reads letters up to a colon (a colon in front is
\* the error "missing protocol scheme"); after "//" comes the authority, up
\* to the next slash; what is left is the path.
UrlParse(u) ==
    LET stops == {k \in 1..Len(u) : u[k] \notin Letters}
        k == IF stops = {} THEN Len(u) + 1
             ELSE CHOOSE i \in stops : \A j \in stops : i <= j
        colon == k <= Len(u) /\ u[k] = ":"
        scheme == IF colon THEN SubSeq(u, 1, k - 1) ELSE NoString
        rest == IF colon THEN SubSeq(u, k + 1, Len(u)) ELSE u
        authority == IF HasPrefix(rest, <<"/", "/">>)
                     THEN SplitFirst(SubSeq(rest, 3, Len(rest)), "/")
                     ELSE NoString
    IN  [ ok     |-> ~(colon /\ k = 1),
          scheme |-> scheme,
          host   |-> authority,
          path   |-> IF HasPrefix(rest, <<"/", "/">>)
                     THEN SubSeq(rest, 3 + Len(authority), Len(rest))
                     ELSE rest ]

\* every configuration of at most MaxRoutes routes, in every order, with
\* repeated and with empty prefixes
PrefixTables ==
    UNION {[1..k -> {Route(x, UrlA) : x \in Prefixes}] : k \in 0..MaxRoutes}

\* the configurations of proxy_test.go, with their prefixes shortened:
\* /users -> a alone, and /users -> a before /users/profiles -> b
TestTables ==
    { <<Route(<<"/", "u">>, UrlA)>>,
      <<Route(<<"/", "u">>, UrlA), Route(<<"/", "u", "/">>, UrlB)>> }

\* configurations LoadConfig accepts as well: an upstream URL with a path,
\* one url.Parse refuses, and one without a scheme
UrlTables ==
    { <<Route(<<"/", "u">>, UrlBU)>>,
      <<Route(<<"/", "u">>, UrlNoScheme)>>,
      <<Route(<<"/", "u">>, UrlBare)>> }

RouteTables == PrefixTables \cup TestTables \cup UrlTables

\* what the upstream may answer, and the ways the call may fail
UpstreamReplies ==
    { [status |-> StatusCreated, body |-> <<"X">>],
      [status |-> StatusInternalServerError, body |-> HttpError("Backend crashed!")],
      [status |-> StatusNotFound, body |-> HttpError("Item not found in backend")] }
TransportErrors == {"connection refused", "no such host", "timeout"}

\* how an upstream may behave for one call: it answers, it cannot be reached,
\* or it accepts the connection and sends nothing
UpstreamModes == {"answers", "unreachable", "silent"}

\* the inbound request besides its path: the identity and the correlation id
\* in its context ("none": absent), the X-User-ID / X-Request-ID headers the
\* client sent itself, and the raw query
HeaderNames == {"X-User-ID", "X-Request-ID"}
ClientHeaders == UNION {[names -> {"forged"}] : names \in SUBSET HeaderNames}
Queries == {NoString, <<"q", "=", "g", "&", "l", "=", "1">>}
Requests ==
    [user : {"none", "u1"}, requestID : {"none", "r1"},
     header : ClientHeaders, query : Queries,
     method : {"GET"}, body : {NoString}, remoteAddr : {<<"1", ":", "8">>}]
PlainRequest ==
    [user |-> "none", requestID |-> "none", header |-> <<>>, query |-> NoString,
     method |-> "GET", body |-> NoString, remoteAddr |-> <<"1", ":", "8">>]

\* requests with a method, a body and headers of every kind the reverse proxy
\* treats differently: end-to-end ones, hop-by-hop ones, a Connection header
\* naming another header, a protocol upgrade, and a forwarding chain
WireHeaders ==
    { <<>>,
      ("Authorization" :> "Bearer t"),
      ("Authorization" :> "Bearer t") @@ ("Connection" :> "close"),
      ("Connection" :> "Keep-Alive") @@ ("Keep-Alive" :> "timeout=5"),
      ("Connection" :> "X-Custom") @@ ("X-Custom" :> "v"),
      ("Connection" :> "X-User-ID"),
      ("Connection" :> "X-Request-ID") @@ ("X-Request-ID" :> "forged"),
      ("Connection" :> "Upgrade") @@ ("Upgrade" :> "websocket"),
      ("Te" :> "trailers") @@ ("Transfer-Encoding" :> "chunked"),
      ("X-Forwarded-For" :> "9.9.9.9") @@ ("X-Custom" :> "v"),
      ("X-User-ID" :> "forged") @@ ("X-Request-ID" :> "forged") }
WireRequests ==
    [user : {"none", "u1"}, requestID : {"r1"},
     header : WireHeaders, query : {NoString},
     method : {"GET", "POST", "DELETE"},
     body : {NoString, <<"{", "}">>},
     remoteAddr : {<<"1", ":", "8">>, <<"[", ":", ":", "1", "]", ":", "8">>}]

\* (mutant) the first matching route is taken, as by a loop that breaks
RECURSIVE ScanFirst(_, _, _, _, _)
ScanFirst(rs, p, i, best, longest) ==
    IF i > Len(rs) THEN best
    ELSE IF HasPrefix(p, rs[i].PathPrefix) /\ best = 0
    THEN ScanFirst(rs, p, i + 1, i, Len(rs[i].PathPrefix))
    ELSE ScanFirst(rs, p, i + 1, best, longest)

\* the loop over p.config.Routes, from route i on, with the loop's locals
\* bestMatch and longestPrefix
RECURSIVE ScanRoutes(_, _, _, _, _)
ScanRoutes(rs, p, i, best, longest) ==
    IF i > Len(rs) THEN best
    ELSE IF HasPrefix(p, rs[i].PathPrefix) /\ Len(rs[i].PathPrefix) > longest
    THEN ScanRoutes(rs, p, i + 1, i, Len(rs[i].PathPrefix))
    ELSE ScanRoutes(rs, p, i + 1, best, longest)

\* (mutant) longestPrefix starts below every length
BestMatchFromBelow(rs, p) == ScanRoutes(rs, p, 1, 0, -1)

\* (mutant) bestMatch starts at the first route instead of nil
BestMatchOrFirst(rs, p) ==
    IF ScanRoutes(rs, p, 1, 0, 0) = 0 /\ Len(rs) > 0 THEN 1
    ELSE ScanRoutes(rs, p, 1, 0, 0)

\* bestMatch after the loop
BestMatch(rs, p) == ScanRoutes(rs, p, 1, 0, 0)

\* (mutant) the value is written only when the header has none, as by Add
\* on a present key being ignored
HeaderAdd(h, key, value) ==
    [x \in DOMAIN h \cup {key} |-> IF x \in DOMAIN h THEN h[x] ELSE value]

\* http.Header.Set(key, value) on the header h
HeaderSet(h, key, value) ==
    [x \in DOMAIN h \cup {key} |-> IF x = key THEN value ELSE h[x]]

\* the value of a context key asserted to be a string: "" when it is absent
CtxString(v) == IF v = "none" THEN "" ELSE v

\* (mutant) the upstream URL's path is joined in front of the request's path,
\* as by the Director of NewSingleHostReverseProxy
DirectorJoinsPath(u, p, in, user) ==
    LET withUser == IF user # "none" THEN HeaderSet(in.header, "X-User-ID", user)
                    ELSE in.header
    IN  [ scheme     |-> u.scheme,
          host       |-> u.host,
          path       |-> u.path \o p,
          query      |-> in.query,
          hostHeader |-> u.host,
          header     |-> HeaderSet(withUser, "X-Request-ID", CtxString(in.requestID)) ]

\* (mutant) the path is the one the client asked for, whatever the handlers
\* in front have made of it
DirectorOriginalURI(u, p, in, user) ==
    LET withUser == IF user # "none" THEN HeaderSet(in.header, "X-User-ID", user)
                    ELSE in.header
    IN  [ scheme     |-> u.scheme,
          host       |-> u.host,
          path       |-> in.requestURI,
          query      |-> in.query,
          hostHeader |-> u.host,
          header     |-> HeaderSet(withUser, "X-Request-ID", CtxString(in.requestID)) ]

\* The outbound request: httputil.ReverseProxy copies the inbound request,
\* headers and raw query included, and proxy.Director then writes the
\* scheme, host and Host of the parsed upstream URL u, the path p the handler
\* received, X-User-ID if the context holds an identity, and X-Request-ID.
Director(u, p, in, user) ==
    LET withUser == IF user # "none" THEN HeaderSet(in.header, "X-User-ID", user)
                    ELSE in.header
    IN  [ scheme     |-> u.scheme,
          host       |-> u.host,
          path       |-> p,
          query      |-> in.query,
          hostHeader |-> u.host,
          header     |-> HeaderSet(withUser, "X-Request-ID", CtxString(in.requestID)) ]

\* the header h without the keys in names (http.Header.Del on each)
HeaderDel(h, names) == [x \in DOMAIN h \ names |-> h[x]]

\* http.Header.Get(key): "" when the header has no such key
HeaderGet(h, key) == IF key \in DOMAIN h THEN h[key] ELSE ""

\* the hop-by-hop headers of net/http/httputil
HopHeaders ==
    {"Connection", "Proxy-Connection", "Keep-Alive", "Proxy-Authenticate",
     "Proxy-Authorization", "Te", "Trailer", "Transfer-Encoding", "Upgrade"}

\* upgradeType: the Upgrade header of a request whose Connection header asks
\* for an upgrade, "" otherwise
UpgradeType(h) ==
    IF HeaderGet(h, "Connection") = "Upgrade" THEN HeaderGet(h, "Upgrade") ELSE ""

\* a sequence of one-character strings as one string
RECURSIVE Str(_)
Str(s) == IF s = <<>> THEN "" ELSE Head(s) \o Str(Tail(s))

\* the index of the last sep in s (0: none)
RECURSIVE LastIndex(_, _)
LastIndex(s, sep) ==
    IF s = <<>> THEN 0
    ELSE IF s[Len(s)] = sep THEN Len(s)
    ELSE LastIndex(SubSeq(s, 1, Len(s) - 1), sep)

\* net.SplitHostPort(addr): the host in front of the last colon, without the
\* brackets of an IPv6 literal; no host when there is no colon
SplitHostPort(addr) ==
    LET i == LastIndex(addr, ":")
        h == SubSeq(addr, 1, i - 1)
    IN  IF i = 0 THEN [ok |-> FALSE, host |-> NoString]
        ELSE IF h # <<>> /\ Head(h) = "["
        THEN IF h[Len(h)] = "]"
             THEN [ok |-> TRUE, host |-> SubSeq(h, 2, Len(h) - 1)]
             ELSE [ok |-> FALSE, host |-> NoString]
        ELSE [ok |-> TRUE, host |-> h]

\* the X-Forwarded-For of the outbound request: the client's address after
\* whatever chain the header h carries
ForwardedFor(h, addr) ==
    LET hp == SplitHostPort(addr)
    IN  IF ~hp.ok THEN h
        ELSE IF "X-Forwarded-For" \in DOMAIN h
        THEN HeaderSet(h, "X-Forwarded-For",
                       h["X-Forwarded-For"] \o ", " \o Str(hp.host))
        ELSE HeaderSet(h, "X-Forwarded-For", Str(hp.host))

\* what is left of the header h, prepared by Director for the inbound request
\* in, when the reverse proxy has removed the headers the Connection header
\* names and the hop-by-hop headers, and has put back Te: trailers and the
\* two headers of a protocol upgrade
EndToEnd(h, in) ==
    LET named   == HeaderDel(h, {HeaderGet(h, "Connection")})
        kept    == HeaderDel(named, HopHeaders)
        trailer == IF HeaderGet(in.header, "Te") = "trailers"
                   THEN HeaderSet(kept, "Te", "trailers") ELSE kept
    IN  IF UpgradeType(h) # ""
        THEN HeaderSet(HeaderSet(trailer, "Connection", "Upgrade"),
                       "Upgrade", UpgradeType(h))
        ELSE trailer

\* (mutant) every outbound request is a GET without a body
OutboundAsGet(d, in) ==
    [ scheme |-> d.scheme, host |-> d.host, path |-> d.path, query |-> d.query,
      hostHeader |-> d.hostHeader,
      header |-> ForwardedFor(EndToEnd(d.header, in), in.remoteAddr),
      method |-> "GET", body |-> NoString ]

\* (mutant) the header is sent as Director leaves it
OutboundKeepsHeader(d, in) ==
    [ scheme |-> d.scheme, host |-> d.host, path |-> d.path, query |-> d.query,
      hostHeader |-> d.hostHeader,
      header |-> d.header,
      method |-> in.method, body |-> in.body ]

\* The request the transport sends: httputil.ReverseProxy.ServeHTTP copies
\* the inbound request in with its method and body, lets Director prepare the
\* copy (d), and then removes the hop-by-hop headers and appends the client's
\* address to X-Forwarded-For.
Outbound(d, in) ==
    [ scheme |-> d.scheme, host |-> d.host, path |-> d.path, query |-> d.query,
      hostHeader |-> d.hostHeader,
      header |-> ForwardedFor(EndToEnd(d.header, in), in.remoteAddr),
      method |-> in.method, body |-> in.body ]

\* (mutant) the transport error is answered as an internal error
ErrorHandlerInternal(err) ==
    [ status |-> StatusInternalServerError,
      body   |-> HttpError("Internal server error") ]

\* proxy.ErrorHandler(w, r, err)
ErrorHandler(err) ==
    [ status |-> StatusBadGateway,
      body   |-> HttpError("Upstream service unavailable: " \o err) ]

\* (mutant) an upstream error is replaced by the gateway's own 502
RelayMasksErrors(resp) ==
    IF resp.status >= StatusInternalServerError
    THEN [status |-> StatusBadGateway, body |-> HttpError("Bad Gateway")]
    ELSE [status |-> resp.status, body |-> resp.body]

\* what the client gets of an upstream response; ModifyResponse returns nil
Relay(resp) == [status |-> resp.status, body |-> resp.body]

\* ProxyHandler.ServeHTTP is called with a request for path p whose context
\* and headers are those of r.
ProxyServe(w, p, r) ==
    /\ pc[w] = "idle"
    /\ pc' = [pc EXCEPT ![w] = "resolve"]
    /\ handler' = [handler EXCEPT ![w] = "proxy"]
    /\ path' = [path EXCEPT ![w] = p]
    /\ userID' = [userID EXCEPT ![w] = r.user]
    /\ inbound' = [inbound EXCEPT ![w] =
                     [requestID |-> r.requestID, header |-> r.header,
                      query |-> r.query, method |-> r.method, body |-> r.body,
                      remoteAddr |-> r.remoteAddr, requestURI |-> p]]
    /\ UNCHANGED <<userVars, procVars, now, testing, wheader, svcVars, ip, limiter, allowed, status, body,
                   nextCalls, routes, bestMatch, upstreamCalls, cred,
                   outreq, upstream, received, obsVars>>

\* (mutant) the route that was matched is moved to the front of the table
ResolveMovesToFront(w) ==
    /\ pc[w] = "resolve"
    /\ LET best == BestMatch(routes, path[w])
       IN  /\ routes' = IF best = 0 THEN routes
                         ELSE <<routes[best]>> \o SubSeq(routes, 1, best - 1)
                              \o SubSeq(routes, best + 1, Len(routes))
           /\ bestMatch' = [bestMatch EXCEPT ![w] = IF best = 0 THEN 0 ELSE 1]
           /\ IF best = 0
              THEN /\ status' = [status EXCEPT ![w] = StatusNotFound]
                   /\ body' = [body EXCEPT ![w] = HttpError("Route not found")]
                   /\ pc' = [pc EXCEPT ![w] = "done"]
              ELSE IF ~UrlParse(routes[best].UpstreamURL).ok
              THEN /\ status' = [status EXCEPT ![w] = StatusInternalServerError]
                   /\ body' = [body EXCEPT ![w] = HttpError("Internal server error")]
                   /\ pc' = [pc EXCEPT ![w] = "done"]
              ELSE /\ pc' = [pc EXCEPT ![w] = "forward"]
                   /\ UNCHANGED <<status, body>>
    /\ UNCHANGED <<userVars, procVars, now, testing, wheader, svcVars, handler, ip, limiter, allowed,
                   nextCalls, path, upstreamCalls, authVars, fwdVars, obsVars>>

\* The search for the best match, the 404 when there is none, and the 500
\* when url.Parse refuses the upstream URL of the match.
Resolve(w) ==
    /\ pc[w] = "resolve"
    /\ LET best == BestMatch(routes, path[w])
       IN  /\ bestMatch' = [bestMatch EXCEPT ![w] = best]
           /\ IF best = 0
              THEN /\ status' = [status EXCEPT ![w] = StatusNotFound]
                   /\ body' = [body EXCEPT ![w] = HttpError("Route not found")]
                   /\ pc' = [pc EXCEPT ![w] = "done"]
              ELSE IF ~UrlParse(routes[best].UpstreamURL).ok
              THEN /\ status' = [status EXCEPT ![w] = StatusInternalServerError]
                   /\ body' = [body EXCEPT ![w] = HttpError("Internal server error")]
                   /\ pc' = [pc EXCEPT ![w] = "done"]
              ELSE /\ pc' = [pc EXCEPT ![w] = "forward"]
                   /\ UNCHANGED <<status, body>>
    /\ UNCHANGED <<userVars, procVars, now, testing, wheader, svcVars, handler, ip, limiter, allowed,
                   nextCalls, routes, path, upstreamCalls, authVars, fwdVars, obsVars>>

\* proxy.ServeHTTP(w, r): the reverse proxy prepares the outbound request
\* with Director and the transport sends it to an upstream that behaves as m;
\* a request without a scheme is not sent anywhere. (The parsed URL, the
\* request Director leaves and the request sent are each computed once.)
Dispatch(w, m) ==
    /\ pc[w] = "forward"
    /\ \E u \in {UrlParse(routes[bestMatch[w]].UpstreamURL)} :
         /\ u.scheme = NoString => m = "unreachable"
         /\ \E d \in {Director(u, path[w], inbound[w], userID[w])} :
              \E out \in {Outbound(d, inbound[w])} :
                outreq' = [outreq EXCEPT ![w] = out]
    /\ upstream' = [upstream EXCEPT ![w] = m]
    /\ pc' = [pc EXCEPT ![w] = "upstream"]
    /\ upstreamCalls' = [upstreamCalls EXCEPT ![w] = @ + 1]
    /\ UNCHANGED <<userVars, procVars, now, testing, wheader, svcVars, handler, ip, limiter, allowed, status,
                   body, nextCalls, routes, path, bestMatch, authVars,
                   inbound, received, obsVars>>

\* The upstream answers: its status and body are relayed.
UpstreamResponds(w, reply) ==
    /\ pc[w] = "upstream"
    /\ upstream[w] = "answers"
    /\ received' = [received EXCEPT ![w] = reply]
    /\ status' = [status EXCEPT ![w] = Relay(reply).status]
    /\ body' = [body EXCEPT ![w] = Relay(reply).body]
    /\ pc' = [pc EXCEPT ![w] = "done"]
    /\ UNCHANGED <<userVars, procVars, now, testing, wheader, svcVars, handler, ip, limiter, allowed,
                   nextCalls, proxyVars, authVars, inbound, outreq, upstream, obsVars>>

\* (mutant) a failed call is issued again instead of being answered
UpstreamFailsRetries(w, err) ==
    /\ pc[w] = "upstream"
    /\ upstream[w] = "unreachable"
    /\ pc' = [pc EXCEPT ![w] = "forward"]
    /\ UNCHANGED <<userVars, procVars, now, testing, wheader, svcVars, handler, ip, limiter, allowed,
                   status, body, nextCalls, proxyVars, authVars, fwdVars, obsVars>>

\* The call fails in the transport: proxy.ErrorHandler answers.
UpstreamFails(w, err) ==
    /\ pc[w] = "upstream"
    /\ upstream[w] = "unreachable"
    /\ status' = [status EXCEPT ![w] = ErrorHandler(err).status]
    /\ body' = [body EXCEPT ![w] = ErrorHandler(err).body]
    /\ pc' = [pc EXCEPT ![w] = "done"]
    /\ UNCHANGED <<userVars, procVars, now, testing, wheader, svcVars, handler, ip, limiter, allowed,
                   nextCalls, proxyVars, authVars, fwdVars, obsVars>>

\* (mutant) the error is answered and the call is waited for all the same
ClientCancelsKeepsWaiting(w) ==
    /\ pc[w] = "upstream"
    /\ status[w] = 0
    /\ status' = [status EXCEPT ![w] = ErrorHandler("context canceled").status]
    /\ body' = [body EXCEPT ![w] = ErrorHandler("context canceled").body]
    /\ UNCHANGED <<userVars, procVars, now, testing, wheader, svcVars, pc, handler, ip, limiter, allowed,
                   nextCalls, proxyVars, authVars, fwdVars, obsVars>>

\* The client gives up while the call is under way: the request's context is
\* cancelled, the transport returns that error and proxy.ErrorHandler answers.
ClientCancels(w) ==
    /\ pc[w] = "upstream"
    /\ status' = [status EXCEPT ![w] = ErrorHandler("context canceled").status]
    /\ body' = [body EXCEPT ![w] = ErrorHandler("context canceled").body]
    /\ pc' = [pc EXCEPT ![w] = "done"]
    /\ UNCHANGED <<userVars, procVars, now, testing, wheader, svcVars, handler, ip, limiter, allowed,
                   nextCalls, proxyVars, authVars, fwdVars, obsVars>>

(* ------------- pkg/middleware SecureHeadersMiddleware ---------------- *)

\* An http.ResponseWriter: the header as it goes out with the status line,
\* the status and the body written so far. The header is sent with the
\* first WriteHeader or Write; what is put in w.Header() later is not sent.
NewWriter == [header |-> <<>>, status |-> 0, body |-> NoString, next |-> 0]

\* w.Header().Set(key, value), w.Header().Add(key, value)
WriterSet(rw, key, value) ==
    IF rw.status # 0 THEN rw
    ELSE [rw EXCEPT !.header = [x \in DOMAIN rw.header \cup {key} |->
                                  IF x = key THEN <<value>> ELSE rw.header[x]]]
WriterAdd(rw, key, value) ==
    IF rw.status # 0 THEN rw
    ELSE [rw EXCEPT !.header = [x \in DOMAIN rw.header \cup {key} |->
                                  IF x \in DOMAIN rw.header
                                  THEN IF x = key THEN Append(rw.header[x], value)
                                       ELSE rw.header[x]
                                  ELSE <<value>>]]

\* w.WriteHeader(code): the first call counts; w.Write(b) sends a 200 first
\* if no status has been sent
WriteHeader(rw, code) == IF rw.status # 0 THEN rw ELSE [rw EXCEPT !.status = code]
Write(rw, b) == [WriteHeader(rw, StatusOK) EXCEPT !.body = @ \o b]

\* a handler as the calls it makes on its ResponseWriter
Call(op, key, value, code, data) ==
    [op |-> op, key |-> key, value |-> value, code |-> code, data |-> data]
CallSet(key, value) == Call("Set", key, value, 0, NoString)
CallAdd(key, value) == Call("Add", key, value, 0, NoString)
CallWriteHeader(code) == Call("WriteHeader", "", "", code, NoString)
CallWrite(data) == Call("Write", "", "", 0, data)

RECURSIVE Run(_, _)
Run(rw, calls) ==
    IF calls = <<>> THEN rw
    ELSE LET c == Head(calls)
             after == CASE c.op = "Set" -> WriterSet(rw, c.key, c.value)
                        [] c.op = "Add" -> WriterAdd(rw, c.key, c.value)
                        [] c.op = "WriteHeader" -> WriteHeader(rw, c.code)
                        [] c.op = "Write" -> Write(rw, c.data)
         IN  Run(after, Tail(calls))

\* next.ServeHTTP(w, r)
ServeNext(rw, next) == [Run(rw, next) EXCEPT !.next = @ + 1]

\* net/http's http.Error(w, msg, code)
HttpErrorCalls(msg, code) ==
    << CallSet("Content-Type", "text/plain; charset=utf-8"),
       CallSet("X-Content-Type-Options", "nosniff"),
       CallWriteHeader(code),
       CallWrite(HttpError(msg)) >>

\* the headers an upstream may answer with, which the reverse proxy adds to
\* w.Header() before it writes the upstream's status
UpstreamHeaders ==
    { <<>>,
      << CallAdd("Content-Type", "application/json") >>,
      << CallAdd("X-Frame-Options", "SAMEORIGIN"),
         CallAdd("X-Content-Type-Options", "nosniff") >>,
      << CallAdd("X-XSS-Protection", "0"), CallAdd("Set-Cookie", "a=1"),
         CallAdd("Set-Cookie", "b=2") >> }

\* The handlers of the repository as next handler: the handler of the
\* middleware's test, the health check, the handlers' http.Error answers and
\* the proxy's relay of an upstream response.
NextHandlers ==
    { << CallWriteHeader(StatusOK), CallWrite(<<"Success!">>) >>,
      << CallWriteHeader(StatusOK), CallWrite(<<"OK">>) >> }
    \cup { HttpErrorCalls("Route not found", StatusNotFound),
           HttpErrorCalls("Internal server error", StatusInternalServerError),
           HttpErrorCalls("Too Many Requests", StatusTooManyRequests),
           HttpErrorCalls("Invalid or expired token", StatusUnauthorized),
           HttpErrorCalls("Upstream service unavailable: timeout", StatusBadGateway) }
    \cup { h \o << CallWriteHeader(reply.status), CallWrite(reply.body) >> :
             h \in UpstreamHeaders, reply \in UpstreamReplies }

\* (mutant) the headers are set when next has returned
SecureHeadersAfterNext(rw, next) ==
    WriterSet(WriterSet(WriterSet(ServeNext(rw, next),
        "X-Content-Type-Options", "nosniff"),
        "X-Frame-Options", "DENY"),
        "X-XSS-Protection", "1; mode=block")

\* SecureHeadersMiddleware(next).ServeHTTP(w, r): the three Set calls, then
\* next.ServeHTTP(w, r)
SecureHeadersMiddleware(rw, next) ==
    ServeNext(WriterSet(WriterSet(WriterSet(rw,
        "X-Content-Type-Options", "nosniff"),
        "X-Frame-Options", "DENY"),
        "X-XSS-Protection", "1; mode=block"), next)

\* A request is given to SecureHeadersMiddleware around the handler next.
SecureHeadersServe(w, next) ==
    /\ pc[w] = "idle"
    /\ LET rw == SecureHeadersMiddleware(NewWriter, next)
       IN  /\ wheader' = [wheader EXCEPT ![w] = rw.header]
           /\ status' = [status EXCEPT ![w] = rw.status]
           /\ body' = [body EXCEPT ![w] = rw.body]
           /\ nextCalls' = [nextCalls EXCEPT ![w] = rw.next]
    /\ pc' = [pc EXCEPT ![w] = "done"]
    /\ handler' = [handler EXCEPT ![w] = "secure"]
    /\ UNCHANGED <<userVars, procVars, now, testing, svcVars, ip, limiter, allowed,
                   proxyVars, authVars, fwdVars, obsVars>>

(* --------------- cmd/api/main.go, pkg/middleware/auth.go -------------- *)

ApiPrefix == <<"/", "a", "p", "i">>
HealthPath == <<"/", "h", "e", "a", "l", "t", "h">>

\* the paths requested of the gateway: /health, /api, <p> and /api<p>
GatewayPaths == {HealthPath, ApiPrefix} \cup Paths \cup {ApiPrefix \o p : p \in Paths}

Bearer == <<"B", "e", "a", "r", "e", "r">>
bearer == <<"b", "e", "a", "r", "e", "r">>
Basic == <<"B", "a", "s", "i", "c">>

\* tokens: signed by the gateway for u1, for u2 and without a user_id claim,
\* not a token at all, expired, signed with another key, and unsigned
GoodToken(user) == Token(TRUE, "HS256", "secret", FALSE, user)
Tokens ==
    { GoodToken("u1"), GoodToken("u2"), GoodToken(""),
      Token(FALSE, "", "", FALSE, ""),
      Token(TRUE, "HS256", "secret", TRUE, "u1"),
      Token(TRUE, "HS256", "other", FALSE, "u1"),
      Token(TRUE, "none", "", FALSE, "u1"),
      Token(TRUE, "RS256", "other", FALSE, "u1") }

\* the Authorization headers: none, "Bearer <token>" with each token,
\* "bearer <token>", "Basic <token>", "Bearer" alone and "Bearer  <token>"
Credentials ==
    {NoCredential}
    \cup {Authorization(2, Bearer, t) : t \in Tokens}
    \cup { Authorization(2, bearer, GoodToken("u1")),
           Authorization(2, Basic, GoodToken("u1")),
           Authorization(1, Bearer, NoToken),
           Authorization(3, Bearer, NoToken) }

\* strings.ToLower on the letters of the scheme
ToLower(str) == [k \in 1..Len(str) |-> IF str[k] = "B" THEN "b" ELSE str[k]]

\* strings.TrimPrefix(s, prefix)
TrimPrefix(s, prefix) ==
    IF HasPrefix(s, prefix) THEN SubSeq(s, Len(prefix) + 1, Len(s)) ELSE s

\* the path without its repeated slashes, as mux's cleanPath leaves it
RECURSIVE CleanPath(_)
CleanPath(p) ==
    IF Len(p) < 2 THEN p
    ELSE IF p[1] = "/" /\ p[2] = "/" THEN CleanPath(Tail(p))
    ELSE <<Head(p)>> \o CleanPath(Tail(p))

\* The handler of main.go, cors around the router, is given a GET request
\* for path p with the Authorization header c. The router redirects to the
\* clean path if p is not clean; /health is answered by the gateway, a path
\* under /api/ goes to the protected subrouter, and nothing else is routed.
MainServe(w, p, c) ==
    /\ pc[w] = "idle"
    /\ handler' = [handler EXCEPT ![w] = "main"]
    /\ path' = [path EXCEPT ![w] = p]
    /\ cred' = [cred EXCEPT ![w] = c]
    /\ inbound' = [inbound EXCEPT ![w] =
                     [NoInbound EXCEPT !.requestURI = p, !.method = "GET",
                                       !.remoteAddr = <<"1", ":", "8">>]]
    /\ IF CleanPath(p) # p
       THEN /\ status' = [status EXCEPT ![w] = StatusMovedPermanently]
            /\ body' = [body EXCEPT ![w] = NoString]
            /\ pc' = [pc EXCEPT ![w] = "done"]
       ELSE IF p = HealthPath
       THEN /\ status' = [status EXCEPT ![w] = StatusOK]
            /\ body' = [body EXCEPT ![w] = <<"OK">>]
            /\ pc' = [pc EXCEPT ![w] = "done"]
       ELSE IF HasPrefix(p, ApiPrefix \o <<"/">>)
       THEN /\ pc' = [pc EXCEPT ![w] = "auth"]
            /\ UNCHANGED <<status, body>>
       ELSE /\ status' = [status EXCEPT ![w] = StatusNotFound]
            /\ body' = [body EXCEPT ![w] = HttpError("404 page not found")]
            /\ pc' = [pc EXCEPT ![w] = "done"]
    /\ UNCHANGED <<userVars, procVars, now, testing, wheader, svcVars, ip, limiter, allowed, nextCalls,
                   routes, bestMatch, upstreamCalls, userID,
                   outreq, upstream, received, obsVars>>

\* (mutant) the signature is not verified
ParseErrorsUnverified(t) ==
    IF ~t.wellFormed THEN {"malformed"}
    ELSE IF t.expired THEN {"expired"} ELSE {}

\* the errors of jwt.ParseWithClaims with the key function of AuthMiddleware:
\* a text that is not a token is malformed; a token whose method is not an
\* HMAC one is refused by the key function; the claims are validated and
\* the signature is verified with cfg.JWTSecret
ParseErrors(t) ==
    IF ~t.wellFormed THEN {"malformed"}
    ELSE IF t.alg \notin {"HS256", "HS384", "HS512"} THEN {"unverifiable"}
    ELSE (IF t.expired THEN {"expired"} ELSE {})
         \cup (IF t.key # "secret" THEN {"signature"} ELSE {})

\* What AuthMiddleware makes of the Authorization header c: the refusal and
\* its message, or the identity for the request's context.
AuthOutcome(c) ==
    IF c.words = 0
    THEN [ok |-> FALSE, userID |-> "none", msg |-> "Authorization header is required"]
    ELSE IF c.words # 2 \/ ToLower(c.scheme) # bearer
    THEN [ok |-> FALSE, userID |-> "none",
          msg |-> "Invalid authorization header format (expected Bearer <token>)"]
    ELSE LET errs == ParseErrors(c.token)
         IN  IF "malformed" \in errs
             THEN [ok |-> FALSE, userID |-> "none", msg |-> "Malformed token"]
             ELSE IF "expired" \in errs
             THEN [ok |-> FALSE, userID |-> "none",
                   msg |-> "Token is expired or not yet valid"]
             ELSE IF errs # {}
             THEN [ok |-> FALSE, userID |-> "none",
                   msg |-> IF "unverifiable" \in errs
                           THEN "Invalid token: unexpected signing method"
                           ELSE "Invalid token: signature is invalid"]
             ELSE [ok |-> TRUE, userID |-> c.token.user_id, msg |-> ""]

\* AuthMiddleware: 401 unless the header carries a valid token, whose
\* user_id goes into the request context.
AuthMiddleware(w) ==
    /\ pc[w] = "auth"
    /\ LET out == AuthOutcome(cred[w])
       IN  IF out.ok
           THEN /\ userID' = [userID EXCEPT ![w] = out.userID]
                /\ pc' = [pc EXCEPT ![w] = "strip"]
                /\ UNCHANGED <<status, body>>
           ELSE /\ status' = [status EXCEPT ![w] = StatusUnauthorized]
                /\ body' = [body EXCEPT ![w] = HttpError(out.msg)]
                /\ pc' = [pc EXCEPT ![w] = "done"]
                /\ UNCHANGED userID
    /\ UNCHANGED <<userVars, procVars, now, testing, wheader, svcVars, handler, ip, limiter, allowed,
                   nextCalls, proxyVars, cred, fwdVars, obsVars>>

\* http.StripPrefix("/api", proxyHandler): the path without /api goes to
\* ProxyHandler.ServeHTTP; a path that does not begin with it gets a 404.
StripPrefix(w) ==
    /\ pc[w] = "strip"
    /\ LET p == TrimPrefix(path[w], ApiPrefix)
       IN  IF Len(p) < Len(path[w])
           THEN /\ path' = [path EXCEPT ![w] = p]
                /\ pc' = [pc EXCEPT ![w] = "resolve"]
                /\ UNCHANGED <<status, body>>
           ELSE /\ status' = [status EXCEPT ![w] = StatusNotFound]
                /\ body' = [body EXCEPT ![w] = HttpError("404 page not found")]
                /\ pc' = [pc EXCEPT ![w] = "done"]
                /\ UNCHANGED path
    /\ UNCHANGED <<userVars, procVars, now, testing, wheader, svcVars, handler, ip, limiter, allowed,
                   nextCalls, routes, bestMatch, upstreamCalls, authVars, fwdVars, obsVars>>

(* ------------------- UserHandler: Login and Register ------------------ *)

\* A request body is a sequence of pieces of JSON text: the braces, the
\* comma, a member "name":"value" written name=value, and x for text that
\* belongs to no JSON value.
Members ==
    ("email=a" :> [field |-> "email", value |-> "a"])
    @@ ("email=b" :> [field |-> "email", value |-> "b"])
    @@ ("username=u" :> [field |-> "username", value |-> "u"])
    @@ ("password=p" :> [field |-> "password", value |-> "p"])
    @@ ("password=q" :> [field |-> "password", value |-> "q"])

NoRequest == [email |-> "", username |-> "", password |-> ""]

\* the request with the member m stored in its field
WithMember(req, m) ==
    [f \in DOMAIN req |-> IF f = Members[m].field THEN Members[m].value ELSE req[f]]

\* json.Decoder.Decode from piece i on: it reads one JSON value, here an
\* object, filling req, and stops behind the closing brace; at is where the
\* scanner is: "value" (a value must begin), "first" (behind the opening
\* brace), "more" (behind a member) and "member" (behind a comma). end is
\* the number of pieces read.
RECURSIVE Scan(_, _, _, _)
Scan(b, i, at, req) ==
    IF i > Len(b) THEN [ok |-> FALSE, req |-> req, end |-> Len(b)]
    ELSE IF at = "value" /\ b[i] = "{" THEN Scan(b, i + 1, "first", req)
    ELSE IF at \in {"first", "member"} /\ b[i] \in DOMAIN Members
    THEN Scan(b, i + 1, "more", WithMember(req, b[i]))
    ELSE IF at \in {"first", "more"} /\ b[i] = "}"
    THEN [ok |-> TRUE, req |-> req, end |-> i]
    ELSE IF at = "more" /\ b[i] = "," THEN Scan(b, i + 1, "member", req)
    ELSE [ok |-> FALSE, req |-> req, end |-> i]

\* json.NewDecoder(r.Body).Decode(&req)
Decode(b) == Scan(b, 1, "value", NoRequest)

\* the bodies sent to Login and Register: complete objects, an object with
\* text behind it, truncated and malformed ones, and none
Bodies ==
    { <<"{", "email=a", ",", "password=p", "}">>,
      <<"{", "email=a", ",", "password=q", "}">>,
      <<"{", "email=b", ",", "password=p", "}">>,
      <<"{", "email=a", ",", "username=u", ",", "password=p", "}">>,
      <<"{", "email=b", ",", "username=u", ",", "password=p", "}">>,
      <<"{", "email=a", ",", "password=p", "}", "x">>,
      <<"{", "email=a", ",">>,
      <<"{", "email=a", "password=p", "}">>,
      <<"{", "}">>,
      <<"x">>,
      <<>> }

\* the users table: one user, with email a and password p
Users == {[email |-> "a", user_name |-> "v", password |-> "p"]}

\* how the database behaves for one call: it answers, it reports an error of
\* its own other than a unique violation, or the connection to it fails
DbFaults ==
    { NoError,
      DbError("pq", "57P01", <<"terminating", "connection">>),
      DbError("other", "", <<"generic", "db", "error">>) }

ErrNoRows == DbError("other", "", <<"sql:", "no", "rows", "in", "result", "set">>)

\* h.db.Get(&user, "SELECT * FROM users WHERE email = $1", email) on a
\* database behaving as fault
GetUser(email, fault) ==
    IF fault # NoError THEN [err |-> fault, user |-> NoRequest]
    ELSE IF \E u \in Users : u.email = email
    THEN [err |-> NoError, user |-> CHOOSE u \in Users : u.email = email]
    ELSE [err |-> ErrNoRows, user |-> NoRequest]

UniqueViolation(constraint) ==
    DbError("pq", "23505",
            <<"duplicate", "key", "value", "violates", "unique", "constraint">>
                \o constraint)

\* the errors of the INSERT besides those of DbFaults: the unique
\* violations of users_email_key, users_user_name_key and users_pkey
InsertErrors ==
    DbFaults
    \cup { UniqueViolation(<<"users_", "email", "_key">>),
           UniqueViolation(<<"users_", "user_name", "_key">>),
           UniqueViolation(<<"users_", "pkey">>) }

\* strings.Contains(message, word), for a word the message has as a piece
MessageContains(message, word) == \E k \in 1..Len(message) : message[k] = word

\* UserHandler.Login on the body b with the database behaving as fault: the
\* response, the queries made and the error of the lookup
LoginOutcome(b, fault) ==
    LET dec == Decode(b)
        got == GetUser(dec.req.email, fault)
    IN  IF ~dec.ok
        THEN [status |-> StatusBadRequest, body |-> HttpError("Invalid request body"),
              calls |-> 0, err |-> NoError]
        ELSE IF got.err # NoError
        THEN [status |-> StatusUnauthorized,
              body |-> HttpError("Invalid email or password"),
              calls |-> 1, err |-> got.err]
        ELSE IF got.user.password # dec.req.password
        THEN [status |-> StatusUnauthorized,
              body |-> HttpError("Invalid email or password"),
              calls |-> 1, err |-> NoError]
        ELSE [status |-> StatusOK, body |-> <<"{", "token", "}", "\n">>,
              calls |-> 1, err |-> NoError]

Login(w, b, fault) ==
    /\ pc[w] = "idle"
    /\ handler' = [handler EXCEPT ![w] = "login"]
    /\ inbound' = [inbound EXCEPT ![w] =
                     [NoInbound EXCEPT !.method = "POST", !.body = b]]
    /\ LET out == LoginOutcome(b, fault)
       IN  /\ status' = [status EXCEPT ![w] = out.status]
           /\ body' = [body EXCEPT ![w] = out.body]
           /\ dbCalls' = [dbCalls EXCEPT ![w] = out.calls]
           /\ dbErr' = [dbErr EXCEPT ![w] = out.err]
    /\ pc' = [pc EXCEPT ![w] = "done"]
    /\ UNCHANGED <<procVars, now, testing, wheader, svcVars, ip, limiter, allowed,
                   nextCalls, proxyVars, authVars, outreq, upstream, received,
                   obsVars>>

\* Register's branch for a failed INSERT: err.(*pq.Error) panics when err is
\* of another type; otherwise the code and the message choose the response.
InsertFailed(err) ==
    IF err.type # "pq"
    THEN [panic |-> TRUE, status |-> 0, body |-> NoString]
    ELSE IF err.code = "23505" /\ MessageContains(err.message, "email")
    THEN [panic |-> FALSE, status |-> StatusConflict,
          body |-> HttpError("email already exists")]
    ELSE IF err.code = "23505" /\ MessageContains(err.message, "user_name")
    THEN [panic |-> FALSE, status |-> StatusConflict,
          body |-> HttpError("username already exists")]
    ELSE [panic |-> FALSE, status |-> StatusInternalServerError,
          body |-> HttpError("Error creating user")]

\* UserHandler.Register on the body b, the INSERT ending with err
Register(w, b, err) ==
    /\ pc[w] = "idle"
    /\ handler' = [handler EXCEPT ![w] = "register"]
    /\ inbound' = [inbound EXCEPT ![w] =
                     [NoInbound EXCEPT !.method = "POST", !.body = b]]
    /\ LET dec == Decode(b)
       IN  IF ~dec.ok
           THEN /\ status' = [status EXCEPT ![w] = StatusBadRequest]
                /\ body' = [body EXCEPT ![w] = HttpError("Invalid request body")]
                /\ pc' = [pc EXCEPT ![w] = "done"]
                /\ UNCHANGED userVars
           ELSE IF "" \in {dec.req.email, dec.req.username, dec.req.password}
           THEN /\ status' = [status EXCEPT ![w] = StatusBadRequest]
                /\ body' = [body EXCEPT ![w] =
                       HttpError("Email, username, and password cannot be empty")]
                /\ pc' = [pc EXCEPT ![w] = "done"]
                /\ UNCHANGED userVars
           ELSE /\ dbCalls' = [dbCalls EXCEPT ![w] = 1]
                /\ dbErr' = [dbErr EXCEPT ![w] = err]
                /\ IF err = NoError
                   THEN /\ status' = [status EXCEPT ![w] = StatusCreated]
                        /\ body' = [body EXCEPT ![w] = <<"{", "user", "}", "\n">>]
                        /\ pc' = [pc EXCEPT ![w] = "done"]
                   ELSE /\ status' = [status EXCEPT ![w] = InsertFailed(err).status]
                        /\ body' = [body EXCEPT ![w] = InsertFailed(err).body]
                        /\ pc' = [pc EXCEPT ![w] =
                               IF InsertFailed(err).panic THEN "panicked" ELSE "done"]
    /\ UNCHANGED <<procVars, now, testing, wheader, svcVars, ip, limiter, allowed,
                   nextCalls, proxyVars, authVars, outreq, upstream, received,
                   obsVars>>

(* ---------------------- cmd/api/main.go: shutdown --------------------- *)

\* the worker's request has been accepted and its handler has not yet
\* written the response
InFlight(w) == pc[w] \notin {"idle", "done"}

\* SIGINT or SIGTERM arrives: main leaves <-quit, makes the context with its
\* timeout and calls srv.Shutdown, which closes the listeners.
Signal ==
    /\ server = "serving"
    /\ server' = "draining"
    /\ deadline' = now + ShutdownSeconds * TicksPerSecond
    /\ UNCHANGED <<userVars, mu, now, testing, svcVars, reqVars, proxyVars, authVars,
                   fwdVars, obsVars>>

\* srv.Shutdown returns nil, every connection being idle, and main returns.
ShutdownReturns ==
    /\ server = "draining"
    /\ \A w \in Workers : pc[w] = "idle"
    /\ server' = "exited"
    /\ UNCHANGED <<userVars, mu, deadline, now, testing, svcVars, reqVars, proxyVars,
                   authVars, fwdVars, obsVars>>

\* (mutant) the context given to srv.Shutdown is already expired
GraceExpiredAtOnce(t, d) == TRUE

\* the context given to srv.Shutdown has expired at time t
GraceExpired(t, d) == t >= d

\* srv.Shutdown returns the context's error while a connection is still
\* active, and log.Fatal ends the process: the requests still in their
\* handlers get no response.
ShutdownTimesOut ==
    /\ server = "draining"
    /\ GraceExpired(now, deadline)
    /\ \E w \in Workers : pc[w] # "idle"
    /\ server' = "exited"
    /\ pc' = [w \in Workers |-> IF InFlight(w) THEN "dropped" ELSE pc[w]]
    /\ UNCHANGED <<userVars, mu, deadline, now, testing, wheader, svcVars, handler, ip, limiter,
                   allowed, status, body, nextCalls, proxyVars, authVars,
                   fwdVars, obsVars>>

(* ------------------------------- time --------------------------------- *)

Elapse(d) ==
    /\ now' = now + d
    /\ admittedNow' = [i \in ClientIPs |-> 0]
    /\ tally' = [b \in DOMAIN tally |-> TallyTick(tally[b], now + d)]
    /\ win' = WinTick(win, now + d)
    /\ evicted' = NoPass
    /\ UNCHANGED <<userVars, procVars, testing, svcVars, reqVars, proxyVars, authVars, fwdVars,
                   issuedAt, before, watch, shadow>>

\* one tick passes (at most n in a row)
Tick(n) ==
    /\ now % IdleTicks < n
    /\ Elapse(1)

\* the idle threshold passes at once
IdleWait ==
    /\ now \div IdleTicks < MaxLongWaits
    /\ Elapse(IdleTicks)

\* one tick passes while srv.Shutdown waits, up to the tick after its
\* context expires
GraceTick ==
    /\ server = "draining"
    /\ now <= deadline
    /\ Elapse(1)

\* an observer starts watching identity i and its bucket
OpenWindow(i) ==
    /\ "win" \in watch
    /\ ~win.open
    /\ i \in DOMAIN visitorMap
    /\ win' = [open |-> TRUE, ip |-> i, lim |-> visitorMap[i].limiter,
               start |-> now, nIp |-> 0, nLim |-> 0]
    /\ UNCHANGED <<userVars, procVars, now, testing, svcVars, reqVars, proxyVars, authVars, fwdVars,
                   issuedAt, before, admittedNow, tally, evicted, watch, shadow>>

(* --------------------------- specifications --------------------------- *)

Init ==
    /\ now = 0
    /\ testing \in BOOLEAN
    /\ visitorMap = <<>>
    /\ limiters = <<>>
    /\ mu = 0
    /\ server = "serving"
    /\ deadline = 0
    /\ pc = [w \in Workers |-> "idle"]
    /\ handler = [w \in Workers |-> "none"]
    /\ ip = [w \in Workers |-> NoString]
    /\ limiter = [w \in Workers |-> 0]
    /\ allowed = [w \in Workers |-> "none"]
    /\ status = [w \in Workers |-> 0]
    /\ body = [w \in Workers |-> NoString]
    /\ nextCalls = [w \in Workers |-> 0]
    /\ wheader = [w \in Workers |-> <<>>]
    /\ routes \in RouteTables
    /\ path = [w \in Workers |-> NoString]
    /\ bestMatch = [w \in Workers |-> 0]
    /\ upstreamCalls = [w \in Workers |-> 0]
    /\ cred = [w \in Workers |-> NoCredential]
    /\ dbCalls = [w \in Workers |-> 0]
    /\ dbErr = [w \in Workers |-> NoError]
    /\ userID = [w \in Workers |-> "none"]
    /\ inbound = [w \in Workers |-> NoInbound]
    /\ outreq = [w \in Workers |-> NoOutreq]
    /\ upstream = [w \in Workers |-> "none"]
    /\ received = [w \in Workers |-> NoReply]
    /\ issuedAt = [w \in Workers |-> 0]
    /\ before = [w \in Workers |-> NoBucket]
    /\ admittedNow = [i \in ClientIPs |-> 0]
    /\ tally = <<>>
    /\ win = NoWin
    /\ evicted = NoPass
    /\ shadow = NoShadow
    /\ watch \in SUBSET Observers

\* Requests to RateLimitMiddleware (around a plain handler) from the
\* connections A, served by the goroutines W.
AdmissionStep(W, A) ==
    \/ \E w \in W, addr \in A : RateLimitLookup(w, addr)
    \/ \E w \in W : RateLimitAllow(w)
    \/ \E w \in W : Return(w)

\* the connections of one client: two ports of one address
OneClient == {a \in RemoteAddrs : ClientIP(a) = <<"1">>}

\* One client's requests one after the other, and the clock: the bucket's
\* decisions at its creation and one refill interval later.
NextBurst ==
    \/ AdmissionStep({1}, OneClient)
    \/ Tick(MaxShortTicks)

InitBurst == Init /\ routes = <<>> /\ watch = {"tally", "before"}

SpecBurst == InitBurst /\ [][NextBurst]_vars

\* One client's requests one after the other, the reaper, the clock, and a
\* window.
NextWindow ==
    \/ AdmissionStep({1}, OneClient)
    \/ VisitorCleanup
    \/ Tick(MaxShortTicks)
    \/ \E i \in ClientIPs : OpenWindow(i)

InitWindow == Init /\ routes = <<>> /\ watch = {"win"}

SpecWindow == InitWindow /\ [][NextWindow]_vars

\* One client's concurrent requests and the reaper, all at one instant.
NextAdmission ==
    \/ AdmissionStep(Workers, OneClient)
    \/ VisitorCleanup

InitAdmission == Init /\ routes = <<>> /\ watch = {"instant"}

SpecAdmission == InitAdmission /\ [][NextAdmission]_vars

\* All clients' requests one after the other, the reaper, and the clock with
\* its long idle periods.
NextReaper ==
    \/ AdmissionStep({1}, RemoteAddrs)
    \/ VisitorCleanup
    \/ Tick(MaxReaperTicks)
    \/ IdleWait

InitReaper == Init /\ routes = <<>> /\ watch = {"evicted"}

SpecReaper == InitReaper /\ [][NextReaper]_vars

\* The same run, watched beside the run in which nothing is ever evicted.
InitGhost == Init /\ routes = <<>> /\ watch = {"shadow"}

SpecGhost == InitGhost /\ [][NextReaper]_vars

\* Requests given to ProxyHandler.ServeHTTP, served by the goroutines W.
ProxySteps(W, R) ==
    \/ \E w \in W, p \in Paths, r \in R : ProxyServe(w, p, r)
    \/ \E w \in W : Resolve(w)
    \/ \E w \in W, m \in UpstreamModes : Dispatch(w, m)
    \/ \E w \in W, reply \in UpstreamReplies : UpstreamResponds(w, reply)
    \/ \E w \in W, err \in TransportErrors : UpstreamFails(w, err)
    \/ \E w \in W : ClientCancels(w)
    \/ \E w \in W : Return(w)

\* ... with requests that carry no identity, correlation id, header or query
ProxyStep(W) == ProxySteps(W, {PlainRequest})

\* ProxyHandler alone, as proxy_test.go runs it, over every configuration.
NextProxy == ProxyStep({1})

InitProxy == Init /\ routes \in PrefixTables /\ watch = {}

SpecProxy == InitProxy /\ [][NextProxy]_vars

\* ProxyHandler alone, given requests with and without identity, correlation
\* id, headers of the client's own and a query, in front of upstreams that
\* answer, cannot be reached or stay silent.
ForwardTables == TestTables \cup UrlTables

NextForward == ProxySteps({1}, Requests)

InitForward == Init /\ routes \in ForwardTables /\ watch = {}

\* The handler's goroutine is scheduled; a reachable upstream's response and
\* an unreachable upstream's transport error arrive. Nothing makes the client
\* give up, and nothing arrives from a silent upstream.
ForwardFairness ==
    /\ WF_vars(\E w \in {1} : Resolve(w))
    /\ WF_vars(\E w \in {1}, m \in UpstreamModes : Dispatch(w, m))
    /\ WF_vars(\E w \in {1}, reply \in UpstreamReplies : UpstreamResponds(w, reply))
    /\ WF_vars(\E w \in {1}, err \in TransportErrors : UpstreamFails(w, err))
    /\ WF_vars(\E w \in {1} : Return(w))

SpecForward == InitForward /\ [][NextForward]_vars /\ ForwardFairness

\* Two requests in ProxyHandler at once, with the configurations of the tests.
\* One request after the other with the methods, bodies and headers of
\* WireRequests, to an upstream behind one route.
NextWire == ProxySteps({1}, WireRequests)

InitWire == Init /\ routes = <<Route(<<"/", "u">>, UrlA)>> /\ watch = {}

SpecWire == InitWire /\ [][NextWire]_vars

\* Admission checks of clients at IPv4 and IPv6 addresses, in two goroutines.
NextIdentity == AdmissionStep({1, 2}, RemoteAddrs \cup RemoteAddrs6)

InitIdentity == Init /\ routes = <<>> /\ watch = {}

SpecIdentity == InitIdentity /\ [][NextIdentity]_vars

\* Two goroutines, each serving admission checks of one client and requests
\* to ProxyHandler, in any interleaving.
NextBlocking ==
    \/ AdmissionStep({1, 2}, OneClient)
    \/ ProxyStep({1, 2})

InitBlocking == Init /\ routes = <<Route(<<"/", "u">>, UrlA)>> /\ watch = {}

SpecBlocking == InitBlocking /\ [][NextBlocking]_vars

NextPair == ProxyStep({1, 2})

InitPair == Init /\ routes \in TestTables /\ watch = {}

SpecPair == InitPair /\ [][NextPair]_vars

\* The gateway as main.go assembles it, with the configurations of the tests.
GatewayAccept(W) ==
    \E w \in W, p \in GatewayPaths, c \in Credentials : MainServe(w, p, c)

GatewayHandle(W) ==
    \/ \E w \in W : AuthMiddleware(w)
    \/ \E w \in W : StripPrefix(w)
    \/ \E w \in W : Resolve(w)
    \/ \E w \in W, m \in UpstreamModes : Dispatch(w, m)
    \/ \E w \in W, reply \in UpstreamReplies : UpstreamResponds(w, reply)
    \/ \E w \in W, err \in TransportErrors : UpstreamFails(w, err)
    \/ \E w \in W : ClientCancels(w)
    \/ \E w \in W : Return(w)

GatewayStep(W) == GatewayAccept(W) \/ GatewayHandle(W)

NextGateway == GatewayStep({1})

InitGateway == Init /\ routes \in TestTables /\ watch = {}

SpecGateway == InitGateway /\ [][NextGateway]_vars

\* Requests to Login and Register in two goroutines, with a database that
\* answers or fails.
NextUsers ==
    \/ \E w \in {1, 2}, b \in Bodies, fault \in DbFaults : Login(w, b, fault)
    \/ \E w \in {1, 2}, b \in Bodies, err \in InsertErrors : Register(w, b, err)
    \/ \E w \in {1, 2} : Return(w)

InitUsers == Init /\ routes = <<>> /\ watch = {} /\ ~testing

SpecUsers == InitUsers /\ [][NextUsers]_vars

\* The gateway from its start to the end of the process: requests are
\* accepted until srv.Shutdown closes the listeners, and handlers run as long
\* as the process does.
NextShutdown ==
    \/ server = "serving" /\ GatewayAccept({1})
    \/ server # "exited" /\ GatewayHandle({1})
    \/ Signal
    \/ GraceTick
    \/ ShutdownReturns
    \/ ShutdownTimesOut

InitShutdown == Init /\ routes = <<Route(<<"/", "u">>, UrlA)>> /\ watch = {}

SpecShutdown == InitShutdown /\ [][NextShutdown]_vars

\* Requests through SecureHeadersMiddleware, one next handler per request.
NextSecure ==
    \/ \E w \in Workers, next \in NextHandlers : SecureHeadersServe(w, next)
    \/ \E w \in Workers : Return(w)
InitSecure ==
    /\ Init
    /\ ~testing
    /\ routes = <<>>
    /\ watch = {}
SpecSecure == InitSecure /\ [][NextSecure]_vars

\* The registry with CleanupVisitorsLoop running in its goroutine. The
\* clients send for a while and then never return: identity 1 during the
\* first sleep of the loop, the others during the first two.
Leaves(i) == IF i = <<"1">> THEN SleepTicks ELSE 2 * SleepTicks

NextLoop ==
    \/ \E addr \in RemoteAddrs :
         /\ now < Leaves(ClientIP(addr))
         /\ RateLimitLookup(1, addr)
    \/ RateLimitAllow(1)
    \/ Return(1)
    \/ Tick(MaxReaperTicks)
    \/ CleanupVisitorsLoop

InitLoop == Init /\ routes = <<>> /\ watch = {"evicted"}

\* the loop runs as long as the process does
LoopFairness == WF_vars(CleanupVisitorsLoop)

SpecLoop == InitLoop /\ [][NextLoop]_vars /\ LoopFairness

\* Everything the model holds.
Next ==
    \/ AdmissionStep(Workers, RemoteAddrs)
    \/ VisitorCleanup
    \/ Tick(MaxShortTicks)
    \/ IdleWait
    \/ \E i \in ClientIPs : OpenWindow(i)
    \/ ProxyStep(Workers)
    \/ GatewayStep(Workers)
    \/ \E w \in Workers, next \in NextHandlers : SecureHeadersServe(w, next)
    \/ CleanupVisitorsLoop

Spec == Init /\ [][Next]_vars

(* ------------------------------- claims ------------------------------- *)

\* C2: of the admission checks for one identity that are begun and decided
\* at one instant, by any number of goroutines and with reaper passes in
\* between, no more than Burst are admitted.
C2_NoOverAdmissionAtOneInstant ==
    \A i \in ClientIPs : admittedNow[i] <= Burst

\* C3: the bucket made for a fresh identity admits exactly the first Burst
\* checks made at that instant and refuses the next; exactly one refill
\* interval later it admits exactly one more check and refuses the one after.
C3_BurstThenOnePerInterval ==
    \A l \in DOMAIN tally :
        tally[l].open =>
            /\ tally[l].a0 <= Burst
            /\ (tally[l].r0 = 1 => tally[l].a0 = Burst)
            /\ tally[l].a1 <= 1
            /\ (tally[l].r1 = 1 => tally[l].a1 = 1)

C3_Witness ==
    \E l \in DOMAIN tally :
        /\ tally[l].open
        /\ tally[l].a0 = Burst /\ tally[l].r0 = 1
        /\ tally[l].a1 = 1 /\ tally[l].r1 = 1

\* C4: no reaper eviction of an identity's bucket falls between a worker's
\* lookup of the bucket and its refill-and-deduct on it: a worker that has
\* looked its limiter up and not yet called Allow holds the limiter the
\* registry has for its identity.
C4_NoEvictionBetweenLookupAndAllow ==
    \A w \in Workers :
        pc[w] = "allow" =>
            /\ ip[w] \in DOMAIN visitorMap
            /\ visitorMap[ip[w]].limiter = limiter[w]

C7_RejectedSkipsNext ==
    \A w \in Workers :
        handler[w] = "ratelimit" =>
            /\ allowed[w] = "none" => nextCalls[w] = 0
            /\ allowed[w] = "no" =>
                   status[w] = StatusTooManyRequests /\ nextCalls[w] = 0
            /\ allowed[w] = "yes" => nextCalls[w] = 1

C7_Witness ==
    \E w, v \in Workers :
        /\ pc[w] = "done" /\ allowed[w] = "no"
        /\ pc[v] = "done" /\ allowed[v] = "yes"

C9_PassLeavesNoIdleBucket ==
    evicted.passed =>
        \A i \in DOMAIN visitorMap : now - visitorMap[i].lastSeen <= IdleTicks

\* a pass of the real application that removed one bucket and kept another
C9_Witness ==
    /\ ~testing
    /\ evicted.passed
    /\ evicted.gone # {}
    /\ \E i \in DOMAIN visitorMap : visitorMap[i].lastSeen < now

\* p is a prefix of s, character by character
StartsWith(s, p) ==
    /\ Len(p) <= Len(s)
    /\ \A k \in 1..Len(p) : s[k] = p[k]

Matching(w) == {j \in 1..Len(routes) : StartsWith(path[w], routes[j].PathPrefix)}

Resolved(w) == handler[w] = "proxy" /\ pc[w] \in {"forward", "upstream", "done"}

\* C1: for every route table and every path that a configured prefix is a
\* prefix of, ServeHTTP selects a route, the selected route's prefix is a
\* prefix of the path, and no configured route whose prefix is a prefix of
\* the path has a longer one, wherever the routes stand in the table.
C1_LongestPrefixSelected ==
    \A w \in Workers :
        (Resolved(w) /\ Matching(w) # {}) =>
            /\ bestMatch[w] \in Matching(w)
            /\ \A j \in Matching(w) :
                 Len(routes[j].PathPrefix) <= Len(routes[bestMatch[w]].PathPrefix)

\* C1, as far as it holds: a selected route is a longest match, and a route
\* is selected whenever a route with a non-empty prefix matches.
C1_SelectedIsLongestMatch ==
    \A w \in Workers :
        Resolved(w) =>
            /\ bestMatch[w] # 0 =>
                 /\ bestMatch[w] \in Matching(w)
                 /\ \A j \in Matching(w) :
                      Len(routes[j].PathPrefix) <= Len(routes[bestMatch[w]].PathPrefix)
            /\ (\E j \in Matching(w) : Len(routes[j].PathPrefix) > 0) => bestMatch[w] # 0

\* the case of the test: the general route is declared before the specific one
C1_Witness ==
    \E w \in Workers :
        /\ Resolved(w)
        /\ bestMatch[w] = 2
        /\ 1 \in Matching(w)
        /\ 0 < Len(routes[1].PathPrefix)
        /\ Len(routes[1].PathPrefix) < Len(routes[2].PathPrefix)

\* C6: in the gateway of main.go, a request is in route resolution or in its
\* upstream call only after the admission check has admitted it.
C6_AdmissionBeforeRouting ==
    \A w \in Workers :
        (handler[w] = "main" /\ pc[w] \in {"resolve", "forward", "upstream"}) =>
            allowed[w] = "yes"

Contains(b, piece) == \E k \in 1..Len(b) : b[k] = piece

\* C10: a request whose path begins with no configured prefix is answered
\* 404 with "Route not found" in the body, and no upstream call is made.
C10_NoMatchIs404 ==
    \A w \in Workers :
        (Resolved(w) /\ Matching(w) = {}) =>
            /\ pc[w] = "done"
            /\ status[w] = StatusNotFound
            /\ Contains(body[w], "Route not found")
            /\ upstreamCalls[w] = 0

C10_Witness ==
    \E w \in Workers :
        /\ Resolved(w) /\ Matching(w) = {}
        /\ Len(routes) > 0
        /\ status[w] = StatusNotFound

\* the matching routes whose prefix is as long as any matching route's
Longest(w) ==
    {j \in Matching(w) :
        \A k \in Matching(w) : Len(routes[k].PathPrefix) <= Len(routes[j].PathPrefix)}

\* C11: when several routes tie at the maximal matching prefix length, the
\* earliest-declared of them is selected.
C11_TieGoesToEarliest ==
    \A w \in Workers :
        (Resolved(w) /\ Cardinality(Longest(w)) > 1) =>
            /\ bestMatch[w] \in Longest(w)
            /\ \A j \in Longest(w) : bestMatch[w] <= j

\* C11, as far as it holds: among routes that tie at a maximal matching
\* prefix of one character or more, the earliest-declared is selected.
C11_NonEmptyTieGoesToEarliest ==
    \A w \in Workers :
        (Resolved(w) /\ Cardinality(Longest(w)) > 1 /\ bestMatch[w] # 0) =>
            /\ bestMatch[w] \in Longest(w)
            /\ \A j \in Longest(w) : bestMatch[w] <= j

C11_Witness ==
    \E w \in Workers :
        /\ Resolved(w)
        /\ Longest(w) = {1, 2}
        /\ bestMatch[w] = 1

\* the worker's request went through ProxyHandler and its outbound call
\* was made
Forwarded(w) ==
    handler[w] = "proxy" /\ pc[w] \in {"upstream", "done"} /\ upstreamCalls[w] > 0

\* C12: when the upstream call fails in the transport (the upstream cannot
\* be reached: connection refused, no such host, dial timeout), the client
\* is answered 502.
C12_TransportFailureIs502 ==
    \A w \in Workers :
        (Forwarded(w) /\ pc[w] = "done" /\ upstream[w] = "unreachable") =>
            status[w] = StatusBadGateway

C12_Witness ==
    \E w \in Workers :
        /\ Forwarded(w) /\ pc[w] = "done" /\ upstream[w] = "unreachable"
        /\ status[w] = StatusBadGateway
        /\ UrlParse(routes[bestMatch[w]].UpstreamURL).scheme # NoString

\* C13: two requests for the same path whose upstream calls failed in the
\* transport get the same response, whatever the two errors were.
C13_GenericBadGatewayBody ==
    \A v, w \in Workers :
        ( /\ Forwarded(v) /\ pc[v] = "done" /\ status[v] = StatusBadGateway
          /\ Forwarded(w) /\ pc[w] = "done" /\ status[w] = StatusBadGateway
          /\ path[v] = path[w] ) =>
            body[v] = body[w]

\* C14: no response is written to a request that resolved to a route whose
\* upstream URL url.Parse refuses: such a configuration serves no request.
C14_MalformedUpstreamAnswersNoRequest ==
    \A w \in Workers :
        (bestMatch[w] # 0 /\ ~UrlParse(routes[bestMatch[w]].UpstreamURL).ok) =>
            status[w] = 0

\* C15: every outbound call comes to an end and its request is completed,
\* whatever the upstream does.
C15_ForwardedRequestCompletes ==
    \A w \in Workers : (pc[w] = "upstream") ~> (pc[w] = "done")

\* C16: the status and body the client gets are those of the response
\* received from the upstream, whatever its status.
C16_UpstreamResponseRelayed ==
    \A w \in Workers :
        (Forwarded(w) /\ received[w] # NoReply) =>
            /\ pc[w] = "done"
            /\ status[w] = received[w].status
            /\ body[w] = received[w].body

\* an upstream 404 and an upstream 500 reach the client as they are
C16_Witness ==
    \E w \in Workers :
        /\ Forwarded(w)
        /\ received[w].status \in {StatusNotFound, StatusInternalServerError}
        /\ status[w] = received[w].status
        /\ ~Contains(body[w], "Route not found")

\* C17: with an identity and a correlation id in the context, the outbound
\* request carries them as X-User-ID and X-Request-ID, whatever the client
\* sent under those names.
C17_ContextHeadersInjected ==
    \A w \in Workers :
        (Forwarded(w) /\ userID[w] # "none" /\ inbound[w].requestID # "none") =>
            /\ {"X-User-ID", "X-Request-ID"} \subseteq DOMAIN outreq[w].header
            /\ outreq[w].header["X-User-ID"] = userID[w]
            /\ outreq[w].header["X-Request-ID"] = inbound[w].requestID

\* the client had sent both headers itself
C17_Witness ==
    \E w \in Workers :
        /\ Forwarded(w) /\ userID[w] = "u1" /\ inbound[w].requestID = "r1"
        /\ DOMAIN inbound[w].header = HeaderNames
        /\ outreq[w].header["X-User-ID"] = "u1"

\* C18: without an identity in the context the outbound request has no
\* X-User-ID header, whatever the client sent, and X-Request-ID is the
\* correlation id.
C18_NoIdentityNoUserHeader ==
    \A w \in Workers :
        (Forwarded(w) /\ userID[w] = "none") =>
            /\ "X-User-ID" \notin DOMAIN outreq[w].header
            /\ "X-Request-ID" \in DOMAIN outreq[w].header
            /\ outreq[w].header["X-Request-ID"] = CtxString(inbound[w].requestID)

\* C19: without a correlation id in the context the outbound request has no
\* X-Request-ID header, not even an empty one.
C19_NoCorrelationNoRequestHeader ==
    \A w \in Workers :
        (Forwarded(w) /\ inbound[w].requestID = "none") =>
            "X-Request-ID" \notin DOMAIN outreq[w].header

\* C20: the outbound request goes to the scheme and host of the upstream URL
\* with the path ProxyHandler received and the inbound raw query, and its
\* Host is the upstream's host; the prefix is not stripped and the upstream
\* URL's path is not put in front.
C20_OutboundTarget ==
    \A w \in Workers :
        Forwarded(w) =>
            LET u == UrlParse(routes[bestMatch[w]].UpstreamURL)
            IN  /\ outreq[w].scheme = u.scheme
                /\ outreq[w].host = u.host
                /\ outreq[w].hostHeader = u.host
                /\ outreq[w].path = path[w]
                /\ outreq[w].query = inbound[w].query

\* the upstream h://b/u, the path /u/ and a query: the call goes to
\* h://b/u/?q=g&l=1
C20_Witness ==
    \E w \in Workers :
        /\ Forwarded(w)
        /\ routes[bestMatch[w]].UpstreamURL = UrlBU
        /\ outreq[w].scheme = <<"h">>
        /\ outreq[w].host = <<"b">>
        /\ outreq[w].hostHeader = <<"b">>
        /\ outreq[w].path = <<"/", "u", "/">>
        /\ outreq[w].query = <<"q", "=", "g", "&", "l", "=", "1">>

\* C21: the method and the body of the outbound request are those of the
\* inbound request.
C21_MethodAndBodyUnchanged ==
    \A w \in Workers :
        Forwarded(w) =>
            /\ outreq[w].method = inbound[w].method
            /\ outreq[w].body = inbound[w].body

\* a POST with the body {} has reached the upstream as sent
C21_Witness ==
    \E w \in Workers :
        /\ Forwarded(w)
        /\ inbound[w].method = "POST" /\ inbound[w].body = <<"{", "}">>
        /\ outreq[w].method = "POST" /\ outreq[w].body = <<"{", "}">>

\* the hop-by-hop headers of a request: the standard ones and the one its
\* Connection header names
HopByHop(h) == (HopHeaders \cup {HeaderGet(h, "Connection")}) \cap DOMAIN h

\* C22 (as stated): every inbound header that is not hop-by-hop arrives
\* unchanged, and no hop-by-hop header of the inbound request is forwarded.
C22_HeadersPassThrough ==
    \A w \in Workers :
        Forwarded(w) =>
            \A k \in DOMAIN inbound[w].header :
                IF k \in HopByHop(inbound[w].header)
                THEN k \notin DOMAIN outreq[w].header
                ELSE /\ k \in DOMAIN outreq[w].header
                     /\ outreq[w].header[k] = inbound[w].header[k]

\* the headers the gateway writes itself
WrittenHeaders == {"X-User-ID", "X-Request-ID", "X-Forwarded-For"}

\* C22 (amended): an inbound header that is neither hop-by-hop nor one of
\* X-User-ID, X-Request-ID, X-Forwarded-For arrives unchanged; a hop-by-hop
\* header is not forwarded, except Te: trailers and the Connection and
\* Upgrade headers of a protocol upgrade; X-Forwarded-For arrives with the
\* client's address appended.
C22_EndToEndHeadersPassThrough ==
    \A w \in Workers :
        Forwarded(w) =>
            LET in == inbound[w].header
                out == outreq[w].header
            IN  \A k \in DOMAIN in :
                    /\ (k \notin HopByHop(in) /\ k \notin WrittenHeaders) =>
                           (k \in DOMAIN out /\ out[k] = in[k])
                    /\ (/\ k \in HopByHop(in)
                        /\ k # "X-Forwarded-For"
                        /\ ~(k = "Te" /\ in[k] = "trailers")
                        /\ ~(k \in {"Connection", "Upgrade"} /\ UpgradeType(in) # ""))
                         => k \notin DOMAIN out
                    /\ (k = "X-Forwarded-For" /\ k \notin HopByHop(in)) =>
                           /\ k \in DOMAIN out
                           /\ out[k] = in[k] \o ", "
                                  \o Str(SplitHostPort(inbound[w].remoteAddr).host)

\* Authorization has arrived as sent and Connection: close has not
C22_Witness ==
    \E w \in Workers :
        /\ Forwarded(w)
        /\ DOMAIN inbound[w].header = {"Authorization", "Connection"}
        /\ "Authorization" \in DOMAIN outreq[w].header
        /\ outreq[w].header["Authorization"] = "Bearer t"
        /\ "Connection" \notin DOMAIN outreq[w].header

\* C23: a request causes at most one outbound call, and once it is answered
\* (404, 500, 502 or a relayed status) no further call is made for it.
C23_AtMostOneDispatch ==
    /\ [](\A w \in Workers : upstreamCalls[w] <= 1)
    /\ [][\A w \in Workers :
              pc[w] = "done" => upstreamCalls'[w] <= upstreamCalls[w]]_vars

\* a request answered 502 after its one call
C23_Witness ==
    \E w \in Workers :
        /\ Forwarded(w) /\ pc[w] = "done"
        /\ status[w] = StatusBadGateway
        /\ upstreamCalls[w] = 1

\* C24: while a worker waits for its upstream, mu is free and every other
\* worker can take the next step of its own request, whichever it is: the
\* admission lookup for the same client, limiter.Allow(), the route
\* resolution, its own outbound call, the relay of its answer, its return.
C24_UpstreamCallBlocksNoOne ==
    \A v \in Workers :
        pc[v] = "upstream" =>
            /\ mu = 0
            /\ \A w \in Workers \ {v} :
                /\ pc[w] = "idle" =>
                      /\ ENABLED RateLimitLookup(w, inbound[v].remoteAddr)
                      /\ ENABLED ProxyServe(w, <<"/", "u">>, PlainRequest)
                /\ pc[w] = "allow" => ENABLED RateLimitAllow(w)
                /\ pc[w] = "resolve" => ENABLED Resolve(w)
                /\ pc[w] = "forward" => ENABLED Dispatch(w, "unreachable")
                /\ (pc[w] = "upstream" /\ upstream[w] = "answers") =>
                      ENABLED (\E reply \in UpstreamReplies : UpstreamResponds(w, reply))
                /\ pc[w] = "done" => ENABLED Return(w)

\* worker 1 waits for an upstream that sends nothing; worker 2 has had the
\* same client's admission check answered
C24_Witness ==
    /\ pc[1] = "upstream" /\ upstream[1] = "silent"
    /\ pc[2] = "done" /\ handler[2] = "ratelimit" /\ allowed[2] = "yes"
    /\ ip[2] = ClientIP(inbound[1].remoteAddr)

\* the IP address a remote address names
AddrHost(addr) == SplitHostPort(addr).host

\* the worker is between its lookup and its limiter.Allow()
Charging(w) == handler[w] = "ratelimit" /\ pc[w] = "allow"

\* C25: two requests are charged to the same bucket if and only if they come
\* from the same IP address, whatever the ports and whatever the form of the
\* remote address.
C25_SameBucketIffSameIP ==
    \A v, w \in Workers :
        (Charging(v) /\ Charging(w)) =>
            ((limiter[v] = limiter[w]) <=>
                 (AddrHost(inbound[v].remoteAddr) = AddrHost(inbound[w].remoteAddr)))

\* C25 (lemma): it is so among the remote addresses without a colon in the
\* host, those of IPv4 clients.
C25_IPv4SameBucketIffSameIP ==
    \A v, w \in Workers :
        (/\ Charging(v) /\ Charging(w)
         /\ {inbound[v].remoteAddr, inbound[w].remoteAddr} \subseteq RemoteAddrs) =>
            ((limiter[v] = limiter[w]) <=>
                 (AddrHost(inbound[v].remoteAddr) = AddrHost(inbound[w].remoteAddr)))

Proxied(w) ==
    handler[w] = "main" /\ pc[w] \in {"upstream", "done"} /\ upstreamCalls[w] > 0

\* C27: a request to /api<p> that the gateway forwards was resolved to a
\* route whose prefix begins <p>, and the upstream is asked for <p>.
C27_ApiPrefixStripped ==
    \A w \in Workers :
        Proxied(w) =>
            /\ HasPrefix(inbound[w].requestURI, ApiPrefix)
            /\ ApiPrefix \o outreq[w].path = inbound[w].requestURI
            /\ HasPrefix(TrimPrefix(inbound[w].requestURI, ApiPrefix),
                         routes[bestMatch[w]].PathPrefix)

\* /api/u/ with the routes /u and /u/ has gone to the upstream of /u/ as /u/
C27_Witness ==
    \E w \in Workers :
        /\ Proxied(w)
        /\ inbound[w].requestURI = ApiPrefix \o <<"/", "u", "/">>
        /\ routes[bestMatch[w]].PathPrefix = <<"/", "u", "/">>
        /\ outreq[w].path = <<"/", "u", "/">>

\* the header is "Bearer <token>", in any case of the word, with a token
\* signed by the gateway's secret with an HMAC method and not expired
ValidBearer(c) ==
    /\ c.words = 2
    /\ ToLower(c.scheme) = bearer
    /\ c.token.wellFormed
    /\ c.token.alg = "HS256"
    /\ c.token.key = "secret"
    /\ ~c.token.expired

\* the request was given to the protected subrouter and AuthMiddleware has
\* decided on it
Decided(w) == handler[w] = "main" /\ pc[w] # "auth" /\ status[w] # StatusMovedPermanently
              /\ HasPrefix(inbound[w].requestURI, ApiPrefix \o <<"/">>)

\* C28: a request to a protected route is handed on, resolved or forwarded
\* only with a valid bearer token, and then the identity in its context is
\* the token's user_id; with anything else it is answered 401 and neither
\* resolved nor forwarded.
C28_ProtectedNeedsValidToken ==
    \A w \in Workers :
        Decided(w) =>
            IF ValidBearer(cred[w])
            THEN userID[w] = cred[w].token.user_id
            ELSE /\ pc[w] = "done"
                 /\ status[w] = StatusUnauthorized
                 /\ userID[w] = "none"
                 /\ bestMatch[w] = 0
                 /\ upstreamCalls[w] = 0
                 /\ outreq[w] = NoOutreq

\* a request with u2's token is at its upstream as u2's, and ...
C28_Witness ==
    \E w \in Workers :
        /\ Proxied(w)
        /\ cred[w] = Authorization(2, Bearer, GoodToken("u2"))
        /\ userID[w] = "u2"
        /\ outreq[w].header["X-User-ID"] = "u2"

\* ... a request with a token signed with another key was answered 401
C28_WitnessRefused ==
    \E w \in Workers :
        /\ Decided(w)
        /\ cred[w] = Authorization(2, Bearer, Token(TRUE, "HS256", "other", FALSE, "u1"))
        /\ status[w] = StatusUnauthorized

\* the worker's request was a Register whose INSERT failed
InsertHasFailed(w) ==
    handler[w] = "register" /\ pc[w] # "idle" /\ dbErr[w] # NoError

\* C29: when the INSERT of Register fails the request is answered: 409
\* "email already exists" for a unique violation naming the email, 409
\* "username already exists" for one naming user_name, and 500 "Error
\* creating user" for every other error, of whatever type.
C29_InsertFailureAnswered ==
    \A w \in Workers :
        InsertHasFailed(w) =>
            /\ pc[w] = "done"
            /\ IF dbErr[w] = UniqueViolation(<<"users_", "email", "_key">>)
               THEN /\ status[w] = StatusConflict
                    /\ body[w] = HttpError("email already exists")
               ELSE IF dbErr[w] = UniqueViolation(<<"users_", "user_name", "_key">>)
               THEN /\ status[w] = StatusConflict
                    /\ body[w] = HttpError("username already exists")
               ELSE /\ status[w] = StatusInternalServerError
                    /\ body[w] = HttpError("Error creating user")

\* C29 (lemma): it is so for the errors of type *pq.Error.
C29_PqInsertFailureAnswered ==
    \A w \in Workers :
        (InsertHasFailed(w) /\ dbErr[w].type = "pq") =>
            /\ pc[w] = "done"
            /\ IF dbErr[w] = UniqueViolation(<<"users_", "email", "_key">>)
               THEN /\ status[w] = StatusConflict
                    /\ body[w] = HttpError("email already exists")
               ELSE IF dbErr[w] = UniqueViolation(<<"users_", "user_name", "_key">>)
               THEN /\ status[w] = StatusConflict
                    /\ body[w] = HttpError("username already exists")
               ELSE /\ status[w] = StatusInternalServerError
                    /\ body[w] = HttpError("Error creating user")

\* the body is one JSON value and nothing else
ValidJSON(b) == Decode(b).ok /\ Decode(b).end = Len(b)

LoginDone(w) == handler[w] = "login" /\ pc[w] = "done"

\* the login was refused for one of the three reasons: the lookup failed,
\* no user has the email, or the password is not the user's
Refused(w) ==
    LET req == Decode(inbound[w].body).req
    IN  \/ dbErr[w] # NoError
        \/ \A u \in Users : u.email # req.email
        \/ \E u \in Users : u.email = req.email /\ u.password # req.password

\* C30: Login answers 401 "Invalid email or password" alike when the email
\* is unknown, when the password is wrong and when the lookup fails, and a
\* body that is not valid JSON is answered 400 without a database query.
C30_LoginRefusalsAlike ==
    \A w \in Workers :
        LoginDone(w) =>
            IF ~ValidJSON(inbound[w].body)
            THEN status[w] = StatusBadRequest /\ dbCalls[w] = 0
            ELSE Refused(w) =>
                     /\ status[w] = StatusUnauthorized
                     /\ body[w] = HttpError("Invalid email or password")

\* C30 (lemma): the three refusals are alike, and a body the decoder refuses
\* is answered 400 without a database query.
C30_DecodedLoginRefusalsAlike ==
    \A w \in Workers :
        LoginDone(w) =>
            IF ~Decode(inbound[w].body).ok
            THEN status[w] = StatusBadRequest /\ dbCalls[w] = 0
            ELSE Refused(w) =>
                     /\ status[w] = StatusUnauthorized
                     /\ body[w] = HttpError("Invalid email or password")

\* the values the response carries for a header
Values(h, key) == IF key \in DOMAIN h THEN h[key] ELSE <<>>

Carries(h, key, value) == \E n \in DOMAIN Values(h, key) : Values(h, key)[n] = value

\* C31: for every request passed through SecureHeadersMiddleware the next
\* handler is invoked exactly once, the response carries
\* X-Content-Type-Options: nosniff, X-Frame-Options: DENY and
\* X-XSS-Protection: 1; mode=block (each as the first value of its header),
\* and the status and the body are those the next handler writes to a writer
\* of its own.
C31_SecureHeadersAroundNext ==
    [][\A w \in Workers, next \in NextHandlers :
         SecureHeadersServe(w, next) =>
             /\ nextCalls'[w] = 1
             /\ Carries(wheader'[w], "X-Content-Type-Options", "nosniff")
             /\ Carries(wheader'[w], "X-Frame-Options", "DENY")
             /\ Carries(wheader'[w], "X-XSS-Protection", "1; mode=block")
             /\ Head(Values(wheader'[w], "X-Content-Type-Options")) = "nosniff"
             /\ Head(Values(wheader'[w], "X-Frame-Options")) = "DENY"
             /\ Head(Values(wheader'[w], "X-XSS-Protection")) = "1; mode=block"
             /\ status'[w] = ServeNext(NewWriter, next).status
             /\ body'[w] = ServeNext(NewWriter, next).body]_vars

\* a relayed upstream response that brings an X-Frame-Options of its own,
\* and the answer of the middleware's test
C31_Witness ==
    \E w, v \in Workers :
        /\ handler[w] = "secure" /\ pc[w] = "done"
        /\ wheader[w]["X-Frame-Options"] = <<"DENY", "SAMEORIGIN">>
        /\ status[w] = StatusCreated /\ nextCalls[w] = 1
        /\ handler[v] = "secure" /\ pc[v] = "done"
        /\ status[v] = StatusOK /\ body[v] = <<"Success!">>
        /\ DOMAIN wheader[v] =
             {"X-Content-Type-Options", "X-Frame-Options", "X-XSS-Protection"}

\* C32: a reaper pass removes only idle buckets: no bucket whose lastSeen is
\* within the idle threshold (3 minutes) of the pass is removed by it, in a
\* test binary as in the application.
C32_PassRemovesOnlyIdle ==
    evicted.passed =>
        \A i \in evicted.gone : now - evicted.seen[i] > IdleTicks

\* C32 in the application (the binary's name does not end in .test)
C32_ApplicationPassRemovesOnlyIdle ==
    (~testing /\ evicted.passed) =>
        \A i \in evicted.gone : now - evicted.seen[i] > IdleTicks

\* C33: reaping is unobservable to clients: each admission check gets the
\* decision that the same sequence of checks gets when no reaper pass ever
\* runs.
C33_ReapingUnobservable ==
    \A w \in Workers :
        shadow.said[w] # "none" => allowed[w] = shadow.said[w]

\* C33 in the application (the binary's name does not end in .test), one
\* request at a time
C33_ApplicationReapingUnobservable ==
    ~testing => C33_ReapingUnobservable

\* C34: with CleanupVisitorsLoop running (weak fairness on its iterations),
\* every bucket whose identity has stopped sending requests is eventually
\* removed from the registry.
C34_SilentIdentityEventuallyRemoved ==
    \A i \in ClientIPs :
        (i \in DOMAIN visitorMap /\ now >= Leaves(i)) ~> (i \notin DOMAIN visitorMap)

\* a pass of the application's loop removes the bucket of identity 1, which
\* has left, and keeps the bucket of identity 2, which was seen since
C34_Witness ==
    /\ ~testing
    /\ evicted.passed
    /\ <<"1">> \in evicted.gone
    /\ now >= Leaves(<<"1">>)
    /\ <<"2">> \in DOMAIN visitorMap

\* C35: any two calls of GetVisitorLimiter for one identity with no eviction
\* of the identity between them return the same limiter, concurrent first
\* observations included: as long as an identity's entry stays in the
\* registry its limiter stays the same, every call returns the limiter of
\* the identity's entry, and no two entries hold the same limiter.
C35_OneBucketPerIdentity ==
    [][/\ \A i \in (DOMAIN visitorMap) \cap (DOMAIN visitorMap') :
            visitorMap'[i].limiter = visitorMap[i].limiter
       /\ \A w \in Workers :
            (pc[w] = "idle" /\ pc'[w] = "allow") =>
                /\ ip'[w] \in DOMAIN visitorMap'
                /\ limiter'[w] = visitorMap'[ip'[w]].limiter
       /\ \A i, j \in DOMAIN visitorMap' :
            i # j => visitorMap'[i].limiter # visitorMap'[j].limiter]_vars

\* two goroutines have both looked up the identity, neither has called
\* Allow, and they hold the one limiter made by the first of them
C35_Witness ==
    /\ pc[1] = "allow" /\ pc[2] = "allow"
    /\ ip[1] = ip[2]
    /\ limiter[1] = limiter[2]
    /\ visitorMap[ip[1]].limiter = limiter[1]
    /\ limiters[limiter[1]] = NewLimiter
    /\ DOMAIN limiters = {limiter[1]}

\* worker w makes a step of its admission check: the lookup or the Allow
CheckStep(w) ==
    \/ pc[w] = "idle" /\ pc'[w] = "allow"
    \/ pc[w] = "allow" /\ pc'[w] = "done"

\* C36: an admission check for identity a leaves the bucket (tokens, last and
\* lastSeen) of every other identity b as it was, removes no registry entry
\* and adds none but a's.
C36_CheckTouchesOnlyItsIdentity ==
    [][\A w \in Workers :
         CheckStep(w) =>
             /\ DOMAIN visitorMap \subseteq DOMAIN visitorMap'
             /\ (DOMAIN visitorMap') \ (DOMAIN visitorMap) \subseteq {ip'[w]}
             /\ \A b \in (DOMAIN visitorMap) \ {ip'[w]} :
                  /\ visitorMap'[b] = visitorMap[b]
                  /\ limiters'[visitorMap[b].limiter] = limiters[visitorMap[b].limiter]]_vars

\* a check for one identity has been admitted while another identity has a
\* bucket that was used earlier and is not full
C36_Witness ==
    \E w \in Workers :
        /\ pc[w] = "done" /\ allowed[w] = "yes"
        /\ ip[w] \in DOMAIN visitorMap
        /\ \E b \in (DOMAIN visitorMap) \ {ip[w]} :
             /\ visitorMap[b].lastSeen < visitorMap[ip[w]].lastSeen
             /\ Advance(limiters[visitorMap[b].limiter], now) < Burst * TicksPerToken

\* C37: handling a request never modifies the route table: no step of the
\* concurrent ServeHTTP calls changes the sequence of configured routes
\* (prefixes, upstream URLs and their order), so that after any number of
\* calls it is the one given at construction.
C37_RouteTableNeverModified ==
    [][routes' = routes]_vars

\* two concurrent calls have resolved to different routes of the table of
\* the test, the later route among them, and one is with its upstream
C37_Witness ==
    /\ Len(routes) = 2
    /\ handler[1] = "proxy" /\ handler[2] = "proxy"
    /\ bestMatch[1] = 2 /\ pc[1] = "upstream"
    /\ bestMatch[2] = 1 /\ pc[2] = "done"

\* the four outcomes of a request given to ProxyHandler.ServeHTTP
OutcomeNotFound(w) ==
    /\ status[w] = StatusNotFound /\ body[w] = HttpError("Route not found")
    /\ bestMatch[w] = 0
    /\ upstreamCalls[w] = 0
OutcomeInternal(w) ==
    /\ status[w] = StatusInternalServerError
    /\ body[w] = HttpError("Internal server error")
    /\ bestMatch[w] # 0
    /\ ~UrlParse(routes[bestMatch[w]].UpstreamURL).ok
    /\ upstreamCalls[w] = 0
OutcomeBadGateway(w) ==
    /\ status[w] = StatusBadGateway
    /\ received[w] = NoReply
    /\ upstreamCalls[w] = 1
OutcomeRelayed(w) ==
    /\ received[w] # NoReply
    /\ status[w] = received[w].status /\ body[w] = received[w].body
    /\ upstreamCalls[w] = 1

Outcomes(w) ==
    {k \in {"404", "500", "502", "relayed"} :
        \/ k = "404" /\ OutcomeNotFound(w)
        \/ k = "500" /\ OutcomeInternal(w)
        \/ k = "502" /\ OutcomeBadGateway(w)
        \/ k = "relayed" /\ OutcomeRelayed(w)}

\* C38: a request handled by ProxyHandler.ServeHTTP is answered when the
\* handler is done and not before, with exactly one of: 404 (no route), 500
\* (upstream URL unparsable), 502 (transport failure) or the relayed
\* upstream response; the 404 and the 500 come without an upstream call, and
\* an answer once written is not followed by another.
C38_ExactlyOneOutcome ==
    /\ [](\A w \in Workers :
            handler[w] = "proxy" =>
                /\ status[w] # 0 <=> pc[w] = "done"
                /\ pc[w] = "done" => Cardinality(Outcomes(w)) = 1)
    /\ [][\A w \in Workers :
            (handler[w] = "proxy" /\ status[w] # 0) =>
                \/ status'[w] = status[w] /\ body'[w] = body[w]
                \/ pc'[w] = "idle"]_vars

\* each of the four outcomes
C38_Witness404 ==
    \E w \in Workers : handler[w] = "proxy" /\ pc[w] = "done" /\ OutcomeNotFound(w)
C38_Witness500 ==
    \E w \in Workers : handler[w] = "proxy" /\ pc[w] = "done" /\ OutcomeInternal(w)
C38_Witness502 ==
    \E w \in Workers : handler[w] = "proxy" /\ pc[w] = "done" /\ OutcomeBadGateway(w)
\* ... and an upstream's own 404, relayed after a call
C38_Witness ==
    \E w \in Workers :
        /\ handler[w] = "proxy" /\ pc[w] = "done"
        /\ OutcomeRelayed(w)
        /\ status[w] = StatusNotFound
        /\ Outcomes(w) = {"relayed"}

\* C39: a configured route with an empty prefix is never selected by
\* resolution; when it is the only route whose prefix matches the path, the
\* request is answered 404 and no upstream is called.
C39_EmptyPrefixNeverSelected ==
    \A w \in Workers :
        Resolved(w) =>
            /\ bestMatch[w] # 0 => routes[bestMatch[w]].PathPrefix # NoString
            /\ ( /\ Matching(w) # {}
                 /\ \A j \in Matching(w) : routes[j].PathPrefix = NoString )
               => /\ pc[w] = "done"
                  /\ status[w] = StatusNotFound
                  /\ body[w] = HttpError("Route not found")
                  /\ upstreamCalls[w] = 0

\* a table with an empty prefix and a prefix the path does not begin with:
\* the request is answered 404
C39_Witness ==
    \E w \in Workers :
        /\ Resolved(w)
        /\ Len(routes) = 2
        /\ routes[1].PathPrefix = NoString
        /\ routes[2].PathPrefix # NoString
        /\ Matching(w) = {1}
        /\ status[w] = StatusNotFound

=============================================================================
